---- MODULE Spec2Model ----
(***************************************************************************)
(* A model of the weather/news aggregation service: the read path          *)
(* (AggregationService over the ORM-backed repositories), the scheduled    *)
(* fetch-and-persist job (fetchData over the driver-backed repositories)   *)
(* and the four repository implementations over the two SQL tables.        *)
(*                                                                         *)
(* JavaScript values are modelled as follows.  A field that is absent      *)
(* (undefined) is the string Undef, SQL NULL / JS null is the string Null, *)
(* every other string stands for itself.  Errors are records               *)
(* [kind, code]: kind names the error, code is the driver's SQLSTATE       *)
(* ("" when the error is not a driver error).                              *)
(***************************************************************************)
EXTENDS Integers, Sequences, FiniteSets, TLC

VARIABLES
    news,        \* the news table: a set of rows
    weather,     \* the weather table: a set of rows
    newsSeq,     \* the news id sequence (BIGSERIAL): last value handed out
    weatherSeq,  \* the weather id sequence: last value handed out
    svc,         \* the AggregationService instance (initialization future, repositories)
    calls,       \* in-flight and finished calls on the service, per caller
    job,         \* the fetch-and-persist job (fetchData): control state
    cityTask,    \* fetchData: the per-city task of the current run
    artTask,     \* fetchData: the per-article task of the current run
    last,        \* the last direct repository call and its outcome
    neonResult,  \* what the driver's query function resolves to: "array" or "object"
    repo,        \* the repository that is called directly ("none": no direct calls)
    app          \* the last call of a library function: its name, argument and result

vars == <<news, weather, newsSeq, weatherSeq, svc, calls, job, cityTask, artTask, last,
          neonResult, repo, app>>

Undef == "<undefined>"
Null  == "<null>"

NoApp == [fn |-> "none"]
NoError == [kind |-> "none", code |-> ""]
Err(k, c) == [kind |-> k, code |-> c]

(***************************************************************************)
(* Bounds of the model.                                                    *)
(***************************************************************************)
MaxCalls == 2      \* concurrent callers of the aggregation service
MaxRows  == 3      \* ids a sequence hands out before inserts are no longer tried

Min(a, b) == IF a < b THEN a ELSE b

\* The rank of a time value of the model ("t1" < ... < "t5"); 0 for no time.
TimeRank(t) ==
    CASE t = "t1" -> 1 [] t = "t2" -> 2 [] t = "t3" -> 3 [] t = "t4" -> 4 [] t = "t5" -> 5
      [] OTHER -> 0

RECURSIVE SortDesc(_, _)
\* ORDER BY "<col>" DESC: the rows of S in descending order of their time
\* column col (rows with equal times, which SQL may return in any order, by id).
SortDesc(S, col) ==
    IF S = {} THEN <<>>
    ELSE LET top == CHOOSE r \in S : \A o \in S :
                        \/ TimeRank(r[col]) > TimeRank(o[col])
                        \/ (TimeRank(r[col]) = TimeRank(o[col]) /\ r.id <= o.id)
         IN  <<top>> \o SortDesc(S \ {top}, col)

\* s[from+1 .. from+n], cut at the end of s (LIMIT n OFFSET from).
Slice(s, from, n) ==
    IF from >= Len(s) THEN <<>>
    ELSE SubSeq(s, from + 1, Min(Len(s), from + n))

(***************************************************************************)
(* Pagination (utils/pagination.js).  The values of config/pagination.js   *)
(* are configuration: they are parameters of the model, like its bounds.   *)
(***************************************************************************)
DefaultPage  == 1
DefaultLimit == 2
PageMaxLimit == 3

\* parseInt(s, 10) over the query strings of the model: [nan, n].
ParseInt(s) ==
    CASE s = "0"  -> [nan |-> FALSE, n |-> 0]
      [] s = "1"  -> [nan |-> FALSE, n |-> 1]
      [] s = "2"  -> [nan |-> FALSE, n |-> 2]
      [] s = "3"  -> [nan |-> FALSE, n |-> 3]
      [] s = "5"  -> [nan |-> FALSE, n |-> 5]
      [] s = "-1" -> [nan |-> FALSE, n |-> -1]
      [] OTHER    -> [nan |-> TRUE,  n |-> 0]

\* parseInt(s, 10) || dflt : NaN and 0 are falsy.
ParseIntOr(s, dflt) ==
    LET p == ParseInt(s) IN IF p.nan \/ p.n = 0 THEN dflt ELSE p.n

\* Truthiness of a query string: undefined and '' are falsy.
Truthy(s) == s # Undef /\ s # Null /\ s # ""

getPaginationParams(query) ==
    LET page   == ParseIntOr(query.page, DefaultPage)
        limit  == Min(ParseIntOr(query.limit, DefaultLimit), PageMaxLimit)
        offset == IF Truthy(query.page) THEN (page - 1) * limit
                  ELSE ParseIntOr(query.offset, 0)
    IN  [page |-> page, limit |-> limit, offset |-> offset]

CeilDivFloor(a, b) == a \div b

\* Math.ceil(a / b) for b > 0.
CeilDiv(a, b) == IF a % b = 0 THEN a \div b ELSE (a \div b) + 1

getPaginationMetadata(p, totalItems) ==
    LET totalPages == CeilDiv(totalItems, p.limit) IN
    [totalItems |-> totalItems, totalPages |-> totalPages,
     currentPage |-> p.page, itemsPerPage |-> p.limit,
     hasNextPage |-> p.page < totalPages, hasPreviousPage |-> p.page > 1]

(***************************************************************************)
(* The read side of the two tables as the ORM-backed repositories see it.  *)
(* A repository call either reaches the database and returns, or fails     *)
(* (connection lost, statement error): the outcome is an input of the      *)
(* action that settles the call.                                           *)
(***************************************************************************)
\* WHERE of the ORM: every criterion that is given must equal the row's column.
MatchesCriteria(row, criteria) ==
    \A f \in DOMAIN criteria : criteria[f] = Undef \/ row[f] = criteria[f]

\* SequelizeNewsRepository.findAll: WHERE criteria ORDER BY order LIMIT/OFFSET.
SequelizeNewsFindAll(tbl, criteria, options) ==
    Slice(SortDesc({r \in tbl : MatchesCriteria(r, criteria)}, options.order),
          options.offset, options.limit)

\* SequelizeNewsRepository.count.
SequelizeNewsCount(tbl, criteria) ==
    Cardinality({r \in tbl : MatchesCriteria(r, criteria)})

\* SequelizeWeatherRepository.findAll: where: criteria, ...options.
SequelizeWeatherFindAll(tbl, criteria, options) ==
    Slice(SortDesc({r \in tbl : MatchesCriteria(r, criteria)}, options.order),
          options.offset, options.limit)

\* SequelizeWeatherRepository defines no count: the call runs the interface's
\* count, an async method that throws 'Method count() must be implemented',
\* so the promise it returns is already rejected.
SequelizeWeatherCountImplemented == FALSE

(***************************************************************************)
(* Filter processing of getAggregatedData: processFilters with each        *)
(* entity's schema, then processNewsFilters / processWeatherFilters and    *)
(* buildQueryOptions.  The model carries the filters author (news) and     *)
(* provider (news: defaulted to 'newsapi' by the schema; weather: kept     *)
(* only when it is an allowed value).                                      *)
(***************************************************************************)
WeatherProviders == {"openweathermap", "accuweather"}

NewsCriteria(query) ==
    [provider |-> "newsapi", author |-> query.author]

WeatherCriteria(query) ==
    [city |-> query.city]

(***************************************************************************)
(* AggregationService.                                                     *)
(***************************************************************************)
EmptyPagination == <<>>
EmptyResult == [threw |-> FALSE, items |-> <<>>, pagination |-> EmptyPagination]

\* ensureInitialized as a lazy initializer would be written: a caller that
\* finds no repositories starts initializeRepositories itself.
ensureInitializedLazy(s) ==
    [wait  |-> ~(s.newsRepository /\ s.weatherRepository),
     start |-> ~(s.newsRepository /\ s.weatherRepository)]

\* ensureInitialized: waits on this.initialized unless both repositories are
\* set; it never starts initializeRepositories itself.
ensureInitialized(s) ==
    [wait  |-> ~(s.newsRepository /\ s.weatherRepository),
     start |-> FALSE]

\* The mapping of getPaginatedNews over the rows it got (x || '').
NewsItem(r) ==
    [title |-> IF Truthy(r.title) THEN r.title ELSE "",
     description |-> IF Truthy(r.description) THEN r.description ELSE "",
     url |-> IF Truthy(r.url) THEN r.url ELSE "",
     publishedAt |-> r.publishedAt,
     author |-> IF Truthy(r.author) THEN r.author ELSE ""]

\* The mapping of getPaginatedWeather over the rows it got.
WeatherItem(r) ==
    [city |-> IF Truthy(r.city) THEN r.city ELSE "",
     temperature |-> r.temperature, humidity |-> r.humidity,
     timestamp |-> r.timestamp]

\* getPaginatedNews without its try/catch: a failed repository call is thrown
\* on to getAggregatedData.
getPaginatedNewsNoCatch(b, query) ==
    IF b.find = "ok" /\ b.count = "ok"
    THEN [threw |-> FALSE,
          items |-> [i \in 1..Len(b.rows) |-> NewsItem(b.rows[i])],
          pagination |-> getPaginationMetadata(getPaginationParams(query), b.total)]
    ELSE [EmptyResult EXCEPT !.threw = TRUE]

\* getPaginatedWeather without its try/catch.
getPaginatedWeatherNoCatch(b, query) ==
    IF b.find = "ok" /\ b.count = "ok"
    THEN [threw |-> FALSE,
          items |-> [i \in 1..Len(b.rows) |-> WeatherItem(b.rows[i])],
          pagination |-> getPaginationMetadata(getPaginationParams(query), b.total)]
    ELSE [EmptyResult EXCEPT !.threw = TRUE]

\* getPaginatedData followed by the branch's own mapping, and the branch's
\* catch: b is the branch's record once Promise.all([findAll, count]) settled.
getPaginatedNews(b, query) ==
    IF b.find = "ok" /\ b.count = "ok"
    THEN [threw |-> FALSE,
          items |-> [i \in 1..Len(b.rows) |-> NewsItem(b.rows[i])],
          pagination |-> getPaginationMetadata(getPaginationParams(query), b.total)]
    ELSE EmptyResult

getPaginatedWeather(b, query) ==
    IF b.find = "ok" /\ b.count = "ok"
    THEN [threw |-> FALSE,
          items |-> [i \in 1..Len(b.rows) |-> WeatherItem(b.rows[i])],
          pagination |-> getPaginationMetadata(getPaginationParams(query), b.total)]
    ELSE EmptyResult

\* What getAggregatedData returns: the try block's object, or the catch's.
AggregateResponse(n, w) ==
    IF n.threw \/ w.threw
    THEN [news |-> [items |-> <<>>, pagination |-> EmptyPagination],
          weather |-> [items |-> <<>>, pagination |-> EmptyPagination],
          timestamp |-> TRUE, error |-> TRUE]
    ELSE [news |-> [items |-> n.items, pagination |-> n.pagination],
          weather |-> [items |-> w.items, pagination |-> w.pagination],
          timestamp |-> TRUE, error |-> FALSE]

\* The catch block of getAggregatedData with the error field forgotten.
AggregateFailureNoError ==
    [news |-> [items |-> <<>>, pagination |-> EmptyPagination],
     weather |-> [items |-> <<>>, pagination |-> EmptyPagination],
     timestamp |-> TRUE, error |-> FALSE]

\* The catch block of getAggregatedData (ensureInitialized rejected).
AggregateFailure ==
    [news |-> [items |-> <<>>, pagination |-> EmptyPagination],
     weather |-> [items |-> <<>>, pagination |-> EmptyPagination],
     timestamp |-> TRUE, error |-> TRUE]

NoResponse == [news |-> [items |-> <<>>, pagination |-> EmptyPagination],
               weather |-> [items |-> <<>>, pagination |-> EmptyPagination],
               timestamp |-> FALSE, error |-> FALSE]

(***************************************************************************)
(* AggregationController.getAggregatedData, the handler of                 *)
(* GET /api/aggregated-data.  Its argument is how the service call ended:  *)
(* it returned an object, returned something that is no object, or threw   *)
(* an error with the given statusCode (Undef: the error has none).         *)
(***************************************************************************)
ServiceReturned(data) == [kind |-> "returned", data |-> data, statusCode |-> Undef]
ServiceThrew(statusCode) == [kind |-> "threw", data |-> <<>>, statusCode |-> statusCode]

\* The catch block: res.status(error.statusCode || 500).json({success: false, ...}).
ControllerFailure(statusCode) ==
    [status |-> IF statusCode = Undef THEN 500 ELSE statusCode,
     body |-> [success |-> FALSE, message |-> "Failed to process your request",
               error |-> "Failed to fetch aggregated data"]]

\* The earlier version of the handler, which the file still holds: it passes
\* data.news on only when it is an array.
ControllerGetAggregatedDataV1(outcome) ==
    IF outcome.kind # "returned" THEN ControllerFailure(outcome.statusCode)
    ELSE [status |-> 200,
          body |-> [success |-> TRUE,
                    data |-> [news |-> [items |-> <<>>, pagination |-> EmptyPagination],
                              weather |-> outcome.data.weather,
                              timestamp |-> TRUE]]]

\* The handler: res.json (status 200) of the service's news and weather, or
\* the catch block when the service threw or returned no object.
ControllerGetAggregatedData(outcome) ==
    IF outcome.kind # "returned" THEN ControllerFailure(outcome.statusCode)
    ELSE [status |-> 200,
          body |-> [success |-> TRUE,
                    data |-> [news |-> [items |-> outcome.data.news.items,
                                        pagination |-> outcome.data.news.pagination],
                              weather |-> [items |-> outcome.data.weather.items,
                                           pagination |-> outcome.data.weather.pagination],
                              timestamp |-> TRUE]]]

NoHttp == [status |-> 0, body |-> [success |-> FALSE]]

\* The handler's await on the service ends for call c: the response is sent.
Respond(c) ==
    IF c.kind = "aggregate" /\ c.pc = "done"
    THEN [c EXCEPT !.http = ControllerGetAggregatedData(ServiceReturned(c.resp))]
    ELSE c

CallIds == 1..MaxCalls
Branches == {"news", "weather"}

IdleBranch == [st |-> "none", find |-> "none", count |-> "none",
               rows |-> <<>>, total |-> 0, out |-> EmptyResult]

IdleCall == [pc |-> "idle", kind |-> "aggregate", waited |-> FALSE,
             query |-> [page |-> Undef, limit |-> Undef, offset |-> Undef,
                        author |-> Undef, city |-> Undef],
             news |-> IdleBranch, weather |-> IdleBranch, resp |-> NoResponse,
             http |-> NoHttp]

\* The query strings callers send.
Queries ==
    { [page |-> Undef, limit |-> Undef, offset |-> Undef, author |-> Undef, city |-> Undef],
      [page |-> "2", limit |-> "1", offset |-> Undef, author |-> "ann", city |-> Undef] }

\* A branch that awaited findAll before it called count.
IssuedBranchSequential(b) ==
    [st |-> "inflight", find |-> "inflight", count |-> "none",
     rows |-> <<>>, total |-> 0, out |-> EmptyResult]

\* A branch at the moment it has issued findAll and count (both before any
\* await: Promise.all([repository.findAll(..), repository.count(..)])).
IssuedBranch(b) ==
    [st |-> "inflight", find |-> "inflight",
     count |-> IF b = "weather" /\ ~SequelizeWeatherCountImplemented
               THEN "fail" ELSE "inflight",
     rows |-> <<>>, total |-> 0, out |-> EmptyResult]

\* new AggregationService(): this.initialized = this.initializeRepositories(),
\* which has called both factories and waits for them.
NewService ==
    [init |-> "pending", newsCreate |-> "pending", weatherCreate |-> "pending",
     newsRepository |-> FALSE, weatherRepository |-> FALSE,
     initStarts |-> 1, creates |-> 2]

(***************************************************************************)
(* The process is one event loop: when a promise settles, every            *)
(* continuation that no longer waits for I/O runs before the next I/O      *)
(* event is handled.  The three operators below are those continuations;   *)
(* each action is one I/O event followed by them.                          *)
(***************************************************************************)
\* Promise.all([findAll, count]) of branch b has settled (at the first
\* rejection, or when both have resolved): the branch returns.
BranchStep(c, b) ==
    IF /\ c[b].st = "inflight"
       /\ \/ c[b].find = "fail" \/ c[b].count = "fail"
          \/ (c[b].find = "ok" /\ c[b].count = "ok")
    THEN [c EXCEPT ![b].st = "done",
                   ![b].out = IF b = "news" THEN getPaginatedNews(c[b], c.query)
                              ELSE getPaginatedWeather(c[b], c.query)]
    ELSE c

\* Promise.all([getPaginatedWeather, getPaginatedNews]) has settled and
\* getAggregatedData returns; a direct call returns its branch's result.
CallStep(c) ==
    LET d == BranchStep(BranchStep(c, "news"), "weather") IN
    IF d.pc # "running" THEN d
    ELSE IF d.kind = "aggregate"
    THEN IF \/ (d.news.st = "done" /\ d.weather.st = "done")
            \/ (d.news.st = "done" /\ d.news.out.threw)
            \/ (d.weather.st = "done" /\ d.weather.out.threw)
         THEN Respond([d EXCEPT !.pc = "done",
                                !.resp = AggregateResponse(d.news.out, d.weather.out)])
         ELSE d
    ELSE IF d[d.kind].st = "done" THEN [d EXCEPT !.pc = "done"] ELSE d

\* The await this.ensureInitialized() of call c ends, the service being s.
\* Resolved: the aggregate call starts both branches, a direct call issues its
\* two repository calls.  Rejected: the aggregate call returns its catch
\* object, a direct call's own catch returns the empty result.
Proceed(c, s) ==
    IF c.pc # "awaitInit" \/ (ensureInitialized(s).wait /\ s.init = "pending") THEN c
    ELSE IF s.init = "ok"
    THEN CallStep([c EXCEPT !.pc = "running",
                            !.news = IF c.kind \in {"aggregate", "news"}
                                     THEN IssuedBranch("news") ELSE @,
                            !.weather = IF c.kind \in {"aggregate", "weather"}
                                        THEN IssuedBranch("weather") ELSE @])
    ELSE IF c.kind = "aggregate"
    THEN Respond([c EXCEPT !.pc = "done", !.resp = AggregateFailure])
    ELSE [c EXCEPT !.pc = "done", ![c.kind].st = "done", ![c.kind].out = EmptyResult]

\* initializeRepositories resumes after Promise.all([createNewsRepository,
\* createWeatherRepository]): both repositories are assigned in one step, or
\* the error is rethrown and the initialization future rejects.
initializeRepositories(s) ==
    IF s.init # "pending" THEN s
    ELSE IF s.newsCreate = "ok" /\ s.weatherCreate = "ok"
    THEN [s EXCEPT !.init = "ok", !.newsRepository = TRUE, !.weatherRepository = TRUE]
    ELSE IF s.newsCreate = "failed" \/ s.weatherCreate = "failed"
    THEN [s EXCEPT !.init = "failed"]
    ELSE s

\* createNewsRepository / createWeatherRepository settles.
CreateSettle(which, outcome) ==
    /\ svc[which] = "pending"
    /\ LET s == initializeRepositories([svc EXCEPT ![which] = outcome]) IN
       /\ svc' = s
       /\ calls' = [k \in CallIds |-> Proceed(calls[k], s)]
    /\ UNCHANGED <<news, weather, newsSeq, weatherSeq, job, cityTask, artTask, last, neonResult, repo, app>>

\* A caller enters getAggregatedData, getPaginatedNews or getPaginatedWeather
\* and reaches its await this.ensureInitialized().
CallStart(k, kind, q) ==
    /\ calls[k].pc = "idle"
    /\ LET e == ensureInitialized(svc)
           s == IF e.wait /\ e.start
                THEN [svc EXCEPT !.initStarts = @ + 1, !.creates = @ + 2]
                ELSE svc
       IN
       /\ svc' = s
       /\ calls' = [calls EXCEPT ![k] =
              Proceed([IdleCall EXCEPT !.pc = "awaitInit", !.kind = kind, !.query = q,
                                       !.waited = e.wait /\ s.init = "pending"], s)]
    /\ UNCHANGED <<news, weather, newsSeq, weatherSeq, job, cityTask, artTask, last, neonResult, repo, app>>

\* The database answers a findAll, or the call fails.
FindSettle(k, b, ok) ==
    LET c == calls[k]
        p == getPaginationParams(c.query)
        rows == IF b = "news"
                THEN SequelizeNewsFindAll(news, NewsCriteria(c.query),
                        [order |-> "publishedAt", limit |-> p.limit, offset |-> p.offset])
                ELSE SequelizeWeatherFindAll(weather, WeatherCriteria(c.query),
                        [order |-> "timestamp", limit |-> p.limit, offset |-> p.offset])
    IN
    /\ c.pc = "running" /\ c[b].st = "inflight" /\ c[b].find = "inflight"
    /\ calls' = [calls EXCEPT ![k] =
            CallStep([c EXCEPT ![b].find = IF ok THEN "ok" ELSE "fail",
                               ![b].rows = IF ok THEN rows ELSE <<>>])]
    /\ UNCHANGED <<news, weather, newsSeq, weatherSeq, svc, job, cityTask, artTask, last, neonResult, repo, app>>

\* The database answers a count, or the call fails.
CountSettle(k, b, ok) ==
    LET c == calls[k]
        n == IF b = "news" THEN SequelizeNewsCount(news, NewsCriteria(c.query))
             ELSE Cardinality({r \in weather : MatchesCriteria(r, WeatherCriteria(c.query))})
    IN
    /\ c.pc = "running" /\ c[b].st = "inflight" /\ c[b].count = "inflight"
    /\ calls' = [calls EXCEPT ![k] =
            CallStep([c EXCEPT ![b].count = IF ok THEN "ok" ELSE "fail",
                               ![b].total = IF ok THEN n ELSE 0])]
    /\ UNCHANGED <<news, weather, newsSeq, weatherSeq, svc, job, cityTask, artTask, last, neonResult, repo, app>>

\* The caller is done with the response and may call again.
CallForget(k) ==
    /\ calls[k].pc = "done"
    /\ calls' = [calls EXCEPT ![k] = IdleCall]
    /\ UNCHANGED <<news, weather, newsSeq, weatherSeq, svc, job, cityTask, artTask, last, neonResult, repo, app>>

(***************************************************************************)
(* Specification of the read path: one AggregationService instance over    *)
(* tables that the fetch job has filled before.                            *)
(***************************************************************************)
NewsRow(id, url, author, t) ==
    [id |-> id, title |-> "T", description |-> "D", content |-> "C", url |-> url,
     author |-> author, provider |-> "newsapi", publishedAt |-> t]

WeatherRow(id, city, temp, t) ==
    [id |-> id, provider |-> "openweathermap", city |-> city, temperature |-> temp,
     humidity |-> 60, timestamp |-> t]

AggNewsTables ==
    { {},
      {NewsRow(1, "http://a", "ann", "t1"), NewsRow(2, "http://b", Null, "t2"),
       NewsRow(3, "http://c", "ann", "t3")} }

AggWeatherTables ==
    { {WeatherRow(1, "Hanoi", 25, "t1"), WeatherRow(2, "Hue", 30, "t2")} }

\* No answer of the news provider yet; nothing kept of an earlier run.
NoAnswer == [status |-> "none", articles |-> <<>>]
NoFirst == [news |-> {}, weather |-> {}, city |-> <<>>, headlines |-> NoAnswer, db |-> TRUE]

\* fetchData is not running.  headlines: the news provider's answer of the
\* current run; run: the number of the run; first: what the first run was
\* given and left (the provider's answers, the tables, whether the database
\* answered every statement), kept once a second run has started.
IdleJob == [pc |-> "idle", cause |-> "", result |-> <<>>, headlines |-> NoAnswer,
            run |-> 1, first |-> NoFirst]
IdleLast ==
    [op |-> "none", id |-> 0, absent |-> FALSE, err |-> NoError, ret |-> [kind |-> "none", id |-> 0],
     unchanged |-> TRUE, exact |-> FALSE, same |-> TRUE]

InitAgg ==
    /\ news \in AggNewsTables
    /\ weather \in AggWeatherTables
    /\ newsSeq = Cardinality(news)
    /\ weatherSeq = Cardinality(weather)
    /\ svc = NewService
    /\ calls = [k \in CallIds |-> IdleCall]
    /\ job = IdleJob
    /\ cityTask = <<>>
    /\ artTask = <<>>
    /\ last = IdleLast
    /\ neonResult = "array"
    /\ repo = "none"
    /\ app = NoApp

NextAgg ==
    \/ \E w \in {"newsCreate", "weatherCreate"}, o \in {"ok", "failed"} : CreateSettle(w, o)
    \/ \E k \in CallIds, kind \in {"aggregate", "news", "weather"}, q \in Queries :
          CallStart(k, kind, q)
    \/ \E k \in CallIds, b \in Branches, ok \in BOOLEAN : FindSettle(k, b, ok)
    \/ \E k \in CallIds, b \in Branches, ok \in BOOLEAN : CountSettle(k, b, ok)
    \/ \E k \in CallIds : CallForget(k)

SpecAgg == InitAgg /\ [][NextAgg]_vars

\* The read path with one caller, when every repository call that was issued
\* is answered in the end (resolved or rejected).
NextAggOne ==
    \/ \E w \in {"newsCreate", "weatherCreate"}, o \in {"ok", "failed"} : CreateSettle(w, o)
    \/ \E kind \in {"aggregate", "news", "weather"}, q \in Queries : CallStart(1, kind, q)
    \/ \E b \in Branches, ok \in BOOLEAN : FindSettle(1, b, ok)
    \/ \E b \in Branches, ok \in BOOLEAN : CountSettle(1, b, ok)
    \/ CallForget(1)

SpecAggSettling ==
    /\ InitAgg /\ [][NextAggOne]_vars
    /\ WF_vars(\E b \in Branches, ok \in BOOLEAN : FindSettle(1, b, ok))
    /\ WF_vars(\E b \in Branches, ok \in BOOLEAN : CountSettle(1, b, ok))

(***************************************************************************)
(* Claims about the read path (checked under SpecAgg).                     *)
(***************************************************************************)
BranchFailed(c, b) == c[b].find = "fail" \/ c[b].count = "fail"
BranchSucceeded(c, b) == c[b].find = "ok" /\ c[b].count = "ok"
Returned(k) == calls[k].pc = "done" /\ calls[k].kind = "aggregate"
EmptyBranch == [items |-> <<>>, pagination |-> EmptyPagination]

\* What a branch returns for query q when its repository calls succeed,
\* stated on the tables.
ExpectedNews(q) ==
    LET p == getPaginationParams(q)
        match == {r \in news : r.provider = "newsapi" /\ (q.author = Undef \/ r.author = q.author)}
        page == Slice(SortDesc(match, "publishedAt"), p.offset, p.limit)
    IN  [items |-> [i \in 1..Len(page) |-> NewsItem(page[i])],
         pagination |-> getPaginationMetadata(p, Cardinality(match))]

ExpectedWeather(q) ==
    LET p == getPaginationParams(q)
        page == Slice(SortDesc(weather, "timestamp"), p.offset, p.limit)
    IN  [items |-> [i \in 1..Len(page) |-> WeatherItem(page[i])],
         pagination |-> getPaginationMetadata(p, Cardinality(weather))]

\* C1: when getAggregatedData has returned after a repository call of one
\* branch failed and none of the other branch's calls failed, the response
\* carries no top-level error, the failing branch is exactly
\* {items: [], pagination: {}} and the other branch is the page and the
\* pagination metadata of its table.
C1_BranchFailureIsolated ==
    \A k \in CallIds : (Returned(k) /\ svc.init = "ok") =>
        LET c == calls[k] IN
        /\ (BranchFailed(c, "weather") /\ ~BranchFailed(c, "news")) =>
              /\ ~c.resp.error
              /\ c.resp.weather = EmptyBranch
              /\ c.resp.news = ExpectedNews(c.query)
        /\ (BranchFailed(c, "news") /\ ~BranchFailed(c, "weather")) =>
              /\ ~c.resp.error
              /\ c.resp.news = EmptyBranch
              /\ c.resp.weather = ExpectedWeather(c.query)

\* A call has returned with the weather branch failed and news items served.
C1_Witness ==
    \E k \in CallIds :
        /\ Returned(k) /\ BranchFailed(calls[k], "weather")
        /\ BranchSucceeded(calls[k], "news")
        /\ Len(calls[k].resp.news.items) > 0

C3_InitializedOnce ==
    /\ svc.initStarts = 1
    /\ svc.creates = 2
    /\ \A k \in CallIds :
        /\ calls[k].pc = "awaitInit" => svc.init = "pending"
        /\ (calls[k].news.find # "none" \/ calls[k].weather.find # "none") =>
              svc.init = "ok" /\ svc.newsRepository /\ svc.weatherRepository

\* Two calls that both waited for the initialization have issued their
\* repository calls.
C3_Witness ==
    \E j, k \in CallIds :
        /\ j # k /\ calls[j].waited /\ calls[k].waited
        /\ calls[j].news.find # "none" /\ calls[k].weather.find # "none"

\* C4: once repository initialization has failed it stays failed and is not
\* retried, every getAggregatedData call returns empty news and weather with
\* the top-level error field, and no repository query is issued.
C4_InitFailureIsFinal ==
    /\ [](svc.init = "failed" =>
            /\ svc.initStarts = 1 /\ svc.creates = 2
            /\ ~svc.newsRepository \/ ~svc.weatherRepository
            /\ \A k \in CallIds :
                /\ calls[k].news.find = "none" /\ calls[k].weather.find = "none"
                /\ Returned(k) =>
                     /\ calls[k].resp.error
                     /\ calls[k].resp.news = EmptyBranch
                     /\ calls[k].resp.weather = EmptyBranch)
    /\ [][svc.init = "failed" => svc'.init = "failed"]_vars

\* A call that started after the initialization had failed has returned.
C4_Witness ==
    \E k \in CallIds :
        svc.init = "failed" /\ Returned(k) /\ ~calls[k].waited /\ calls[k].resp.error

\* C29: a getAggregatedData call that runs has issued the weather and the
\* news query, and findAll and count of each, before it awaits any of them,
\* whatever has become of the other branch; and when every repository call
\* settles in the end, the call returns a response in which both branches
\* have ended, a failed branch not having kept the other one from ending.
C29_BranchesConcurrent ==
    /\ [](\A k \in CallIds :
            (calls[k].pc = "running" /\ calls[k].kind = "aggregate") =>
               \A b \in Branches :
                  calls[k][b].find # "none" /\ calls[k][b].count # "none")
    /\ \A k \in CallIds :
          (calls[k].pc = "running" /\ calls[k].kind = "aggregate")
             ~> /\ calls[k].pc = "done" /\ calls[k].resp.timestamp
                /\ \A b \in Branches : calls[k][b].st = "done"

\* A call runs whose weather branch has failed while findAll of its news
\* branch has been answered and count is still awaited.
C29_Witness ==
    \E k \in CallIds :
        /\ calls[k].pc = "running" /\ calls[k].kind = "aggregate"
        /\ calls[k].weather.st = "done" /\ BranchFailed(calls[k], "weather")
        /\ calls[k].news.find = "ok" /\ calls[k].news.count = "inflight"

\* C21: when the weather repository query of a GET /api/aggregated-data
\* request has failed and the news queries have succeeded, the response has
\* status 200 and success true, data.news.items is the page of the news table
\* and data.weather.items is the empty list.
C21_WeatherFailureStill200 ==
    \A k \in CallIds :
        (Returned(k) /\ BranchFailed(calls[k], "weather") /\ BranchSucceeded(calls[k], "news")) =>
            LET h == calls[k].http IN
            /\ h.status = 200
            /\ h.body.success
            /\ h.body.data.news.items = ExpectedNews(calls[k].query).items
            /\ h.body.data.weather.items = <<>>

\* A request has been answered with news items after its weather query failed.
C21_Witness ==
    \E k \in CallIds :
        /\ Returned(k) /\ BranchFailed(calls[k], "weather")
        /\ BranchSucceeded(calls[k], "news")
        /\ calls[k].http.status = 200
        /\ Len(calls[k].http.body.data.news.items) > 0

\* C22: when the aggregate call fails as a whole (repository initialization
\* failed) the response has a status other than 200 and the body
\* {success: false, message, error}; a body with success true is sent only
\* when the call succeeded.
C22_FailureIsNot200 ==
    \A k \in CallIds : Returned(k) =>
        LET h == calls[k].http IN
        /\ svc.init = "failed" =>
              /\ h.status # 200
              /\ ~h.body.success
              /\ {"message", "error"} \subseteq DOMAIN h.body
        /\ h.body.success => ~calls[k].resp.error

(***************************************************************************)
(* The driver-backed (Neon) repositories used by the fetch job.            *)
(*                                                                         *)
(* Both repositories build their query function with neon(connection)      *)
(* and no option, but they read its result differently: the weather        *)
(* repository as an array of rows (result[0], result.length), the news     *)
(* repository as an object holding the rows (result.rows).  The driver is  *)
(* not part of the sources, so what the query function resolves to is a    *)
(* choice of the environment, the same for both repositories: neonResult.  *)
(***************************************************************************)
NeonResults == {"array", "object"}

\* x || y
Or(x, y) == IF Truthy(x) THEN x ELSE y

\* /^https?:\/\//.test(url), over the urls of the model.
IsHttpUrl(url) == url \in {"http://a", "http://b", "http://c"}

\* isNaN(new Date(t).getTime()) is false: the times of the model.
IsDate(t) == TimeRank(t) > 0

\* The time of "now" in new Date() / NOW().
Now == "t3"

\* NeonNewsRepository.validate: "" when the data pass, else the message.
NeonNewsValidate(data) ==
    CASE ~Truthy(data.title)    -> "Missing required field: title"
      [] ~Truthy(data.content)  -> "Missing required field: content"
      [] ~Truthy(data.provider) -> "Missing required field: provider"
      [] Truthy(data.url) /\ ~IsHttpUrl(data.url) -> "URL must start with http:// or https://"
      [] Truthy(data.publishedAt) /\ ~IsDate(data.publishedAt) -> "Invalid publishedAt date"
      [] OTHER -> ""

\* The unique index on news.url as it would behave if it were missing.
UniqueViolationOff(tbl, url) == FALSE

\* "url" VARCHAR(2048) NOT NULL UNIQUE: a row of the table has this url.
UniqueViolation(tbl, url) == \E r \in tbl : r.url = url

\* The NOT NULL columns of the news table.
NewsNotNull == {"title", "description", "content", "url", "publishedAt", "provider"}

\* The INSERT as an upsert (ON CONFLICT (url) DO UPDATE) would behave: the
\* stored row with the url is replaced.
NewsInsertUpsert(tbl, seq, vals) ==
    [tbl |-> {r \in tbl : r.url # vals.url} \cup {[id |-> seq + 1] @@ vals},
     seq |-> seq + 1, err |-> NoError, id |-> seq + 1]

\* INSERT INTO news ... RETURNING *: the table, the sequence and the error
\* after the statement ran.  The id is drawn from the sequence before the
\* constraints are checked, so a rejected insert uses up a value.
NewsInsert(tbl, seq, vals) ==
    LET id  == seq + 1
        row == [id |-> id] @@ vals
    IN  IF \E f \in NewsNotNull : vals[f] \in {Null, Undef}
        THEN [tbl |-> tbl, seq |-> id, err |-> Err("db", "23502"), id |-> 0]
        ELSE IF UniqueViolation(tbl, vals.url)
        THEN [tbl |-> tbl, seq |-> id, err |-> Err("db", "23505"), id |-> 0]
        ELSE [tbl |-> tbl \cup {row}, seq |-> id, err |-> NoError, id |-> id]

\* The values NeonNewsRepository.create binds to its INSERT.
NeonNewsCreateValues(data) ==
    [title |-> data.title, description |-> Or(data.description, Null),
     content |-> data.content, url |-> Or(data.url, Null),
     author |-> Or(data.author, Null), provider |-> Or(data.provider, "newsapi"),
     publishedAt |-> Or(data.publishedAt, Now)]

\* NeonNewsRepository.create once its INSERT has been answered (dbOk: the
\* statement reached the database): the table, the sequence, the error the
\* method throws (wrapped by createRepositoryError, which keeps the driver's
\* error as originalError) and the id of the row it returns (0: none).
NeonNewsCreateSettle(tbl, seq, data, dbOk, shape) ==
    IF ~dbOk THEN [tbl |-> tbl, seq |-> seq, err |-> Err("db", "08006"), id |-> 0]
    ELSE LET r == NewsInsert(tbl, seq, NeonNewsCreateValues(data))
         IN  IF r.err # NoError THEN r
             ELSE IF shape = "object" THEN r
             ELSE [r EXCEPT !.err = Err("TypeError", ""), !.id = 0]

\* sanitizeString: script tags, 'javascript:' and on...= are removed and
\* every quote, semicolon and backslash gets a backslash in front.  Over the
\* strings of the model: O'N becomes O\'N, and O\'N becomes O\\\'N.
sanitizeString(v) ==
    CASE v = "O'N"    -> "O\\'N"
      [] v = "O\\'N"  -> "O\\\\\\'N"
      [] v = "javascript:openweathermap" -> "openweathermap"
      [] OTHER        -> v

(***************************************************************************)
(* validateWeatherData (repositories/weather/utils.js).  The validation    *)
(* looks at the type of each value, so it is modelled over JavaScript      *)
(* values that carry their type.                                           *)
(***************************************************************************)
Num(n) == [type |-> "number", num |-> n]
Str(s) == [type |-> "string", str |-> s]
Undefined == [type |-> "undefined"]
NullValue == [type |-> "null"]

requiredFields ==
    << "provider", "city", "country", "latitude", "longitude",
       "temperature", "feelsLike", "tempMin", "tempMax",
       "humidity", "pressure", "windSpeed", "windDirection",
       "conditionMain", "conditionDescription", "conditionIcon", "timestamp" >>

WeatherFields == {requiredFields[i] : i \in 1..Len(requiredFields)}

\* The fields validateWeatherData sanitizes.
WeatherStrings ==
    {"provider", "city", "country", "conditionMain", "conditionDescription",
     "conditionIcon"}

\* The fields a record of the model holds as a number.
WeatherNumerics ==
    {"latitude", "longitude", "temperature", "feelsLike", "tempMin", "tempMax",
     "humidity", "pressure", "windSpeed", "windDirection"}

\* A record of the model (numbers, and strings with Undef and Null) as the
\* JavaScript object it stands for; a field it does not have is undefined.
Js(data) ==
    [f \in WeatherFields |->
        IF f \notin DOMAIN data THEN Undefined
        ELSE IF f \in WeatherNumerics THEN Num(data[f])
        ELSE IF data[f] = Undef THEN Undefined
        ELSE IF data[f] = Null THEN NullValue
        ELSE Str(data[f])]

\* The latest time a timestamp may have: now + 24 hours.
MaxFuture == "t4"

Valid == [error |-> "", fields |-> <<>>]
Invalid(msg, fields) == [error |-> msg, fields |-> fields]

\* value === undefined || value === null || value === ''
IsMissing(v) == v.type \in {"undefined", "null"} \/ (v.type = "string" /\ v.str = "")

missingFieldsNone(data) == <<>>

\* requiredFields.filter(...): the required fields without a value, in order.
missingFields(data) == SelectSeq(requiredFields, LAMBDA f : IsMissing(data[f]))

rangeValidations ==
    << [field |-> "temperature",   min |-> -100, max |-> 70],
       [field |-> "feelsLike",     min |-> -100, max |-> 70],
       [field |-> "humidity",      min |-> 0,    max |-> 100],
       [field |-> "pressure",      min |-> 800,  max |-> 1200],
       [field |-> "windSpeed",     min |-> 0,    max |-> 150],
       [field |-> "windDirection", min |-> 0,    max |-> 360] >>

\* What one pass of the loop of validateNumericRanges throws for a value.
RangeError(rule, v) ==
    CASE v.type \in {"undefined", "null"} -> Valid
      [] v.type # "number" -> Invalid("Invalid field: must be a number", <<rule.field>>)
      [] v.num < rule.min  -> Invalid("Invalid field: minimum value", <<rule.field>>)
      [] v.num > rule.max  -> Invalid("Invalid field: maximum value", <<rule.field>>)
      [] OTHER -> Valid

validateNumericRangesOff(data) == Valid

\* validateNumericRanges: the error of the first rule that fails.
validateNumericRanges(data) ==
    LET bad == {i \in 1..Len(rangeValidations) :
                    RangeError(rangeValidations[i], data[rangeValidations[i].field]) # Valid}
    IN  IF bad = {} THEN Valid
        ELSE LET i == CHOOSE k \in bad : \A o \in bad : k <= o
             IN  RangeError(rangeValidations[i], data[rangeValidations[i].field])

\* validateWeatherData: Valid when the data pass, the error it throws
\* otherwise.  The string fields that are set are sanitized in a copy, and
\* every check reads the copy.
validateWeatherData(data) ==
    LET sanitizedData ==
            [f \in DOMAIN data |->
                IF f \in WeatherStrings /\ data[f].type = "string" /\ data[f].str # ""
                THEN Str(sanitizeString(data[f].str)) ELSE data[f]]
        missing   == missingFields(sanitizedData)
        provider  == sanitizedData["provider"]
        timestamp == sanitizedData["timestamp"]
    IN  CASE missing # <<>> -> Invalid("Missing required fields", missing)
          [] provider.type # "string" ->
                Invalid("Invalid field: must be a string", <<"provider">>)
          [] provider.str \notin WeatherProviders ->
                Invalid("Invalid field: must be one of", <<"provider">>)
          [] ~(timestamp.type = "string" /\ IsDate(timestamp.str)) ->
                Invalid("Invalid field: must be a valid date", <<"timestamp">>)
          [] TimeRank(timestamp.str) > TimeRank(MaxFuture) ->
                Invalid("Timestamp cannot be more than 24 hours in the future",
                        <<"timestamp">>)
          [] OTHER -> validateNumericRanges(sanitizedData)

\* The fields of a weather record that the model's inputs do not vary.
WeatherDefaults ==
    [country |-> "VN", latitude |-> 21, longitude |-> 105, feelsLike |-> 27,
     tempMin |-> 20, tempMax |-> 30, pressure |-> 1010, windSpeed |-> 3,
     windDirection |-> 90, conditionMain |-> "Clouds",
     conditionDescription |-> "few clouds", conditionIcon |-> "02d"]

\* INSERT INTO weather ... RETURNING *.
WeatherInsert(tbl, seq, data) ==
    LET id == seq + 1
    IN  [tbl |-> tbl \cup {[id |-> id] @@ data}, seq |-> id, err |-> NoError, id |-> id]

\* NeonWeatherRepository.save once its INSERT has been answered: it returns
\* result[0], which is undefined (id 0, no error) when the driver answers
\* with an object.
NeonWeatherSaveSettle(tbl, seq, data, dbOk, shape) ==
    IF ~dbOk THEN [tbl |-> tbl, seq |-> seq, err |-> Err("db", "08006"), id |-> 0]
    ELSE LET r == WeatherInsert(tbl, seq, data)
         IN  IF shape = "array" THEN r ELSE [r EXCEPT !.id = 0]

(***************************************************************************)
(* The fetch-and-persist job: fetchData (worker.js).                       *)
(*                                                                         *)
(* A run initializes the two repositories, starts one task per city        *)
(* (fetch, then save), waits for all of them, fetches the top headlines,   *)
(* starts one create per transformed article, waits for all of them and    *)
(* returns the list of results.  Every answer of a provider or of the      *)
(* database is one action; the code that runs on the answer, up to the     *)
(* next await, is part of that action.                                     *)
(***************************************************************************)
MaxArticles == 2     \* articles in one answer of the news provider

\* env.CITIES, in the order of the list.
CityList == <<"Hanoi", "Hue">>
Cities == {CityList[i] : i \in DOMAIN CityList}

NoEntry == [type |-> "", key |-> "", success |-> FALSE, error |-> "", id |-> 0]
NoWeatherData ==
    [provider |-> "", city |-> "", temperature |-> 0, humidity |-> 0, timestamp |-> ""]
NoNewsData ==
    [title |-> "", description |-> "", content |-> "", url |-> "", author |-> "",
     provider |-> "", publishedAt |-> ""]

\* What the weather provider may answer for a city: a complete answer, a
\* non-2xx status, an answer without main/wind, an answer without a name.
WeatherAnswers == {"ok", "http", "malformed", "partial"}

\* OpenWeatherMapService.getCurrentWeather: apiClient.get, then
\* transformer.normalize.  err is the message of the error it throws.
getCurrentWeather(city, answer) ==
    LET full == [provider |-> "openweathermap", city |-> city, temperature |-> 25,
                 humidity |-> 60, timestamp |-> "t1"] @@ WeatherDefaults
    IN  CASE answer = "http" -> [err |-> "API Error", data |-> NoWeatherData]
          [] answer = "malformed" ->
                [err |-> "Invalid data structure received from external source",
                 data |-> NoWeatherData]
          [] answer = "partial" -> [err |-> "", data |-> [full EXCEPT !.city = ""]]
          [] OTHER -> [err |-> "", data |-> full]

\* The articles the news provider may send.
RawArticle(title, description, content, url) ==
    [title |-> title, description |-> description, content |-> content, url |-> url,
     publishedAt |-> "t1"]

ProviderArticles ==
    { RawArticle("T1", "D", "C", "http://a"),
      RawArticle("T2", "D", "C", "http://b"),
      RawArticle("T3", "D", "C", "http://a"),
      RawArticle("T4", "D", Null, "http://c"),
      RawArticle("T5", "", "C", "http://c"),
      RawArticle("T6", "D", "C", "ftp://c") }

\* What the news provider may answer: a non-2xx status, a body that
\* NewsApiTransformer.validate rejects, or a list of articles.
NewsAnswers ==
    { [status |-> st, articles |-> <<>>] : st \in {"http", "malformed"} }
    \cup { [status |-> "ok", articles |-> a] :
             a \in UNION { [1..n -> ProviderArticles] : n \in 0..MaxArticles } }

\* The transform without its filter: every article is passed on.
transformKeepAll(articles) ==
    [i \in DOMAIN articles |->
        [title |-> articles[i].title, description |-> articles[i].description,
         content |-> articles[i].content, url |-> articles[i].url,
         publishedAt |-> articles[i].publishedAt, author |-> ""]]

\* NewsApiTransformer.transform: drops the articles whose content is null,
\* keeps the fields of the others (author || '').
transform(articles) ==
    LET kept == SelectSeq(articles, LAMBDA a : a.content # Null)
    IN  [i \in DOMAIN kept |->
            [title |-> kept[i].title, description |-> kept[i].description,
             content |-> kept[i].content, url |-> kept[i].url,
             publishedAt |-> kept[i].publishedAt, author |-> ""]]

\* NewsApiService.getTopHeadlines: apiClient.get, then transformer.normalize.
getTopHeadlines(answer) ==
    CASE answer.status = "http" -> [err |-> "API Error", articles |-> <<>>]
      [] answer.status = "malformed" ->
            [err |-> "Invalid data structure received from external source",
             articles |-> <<>>]
      [] OTHER -> [err |-> "", articles |-> transform(answer.articles)]

\* The data fetchData hands to newsRepository.create for an article.
ArticleData(article) ==
    [title |-> article.title, description |-> Or(article.description, ""),
     content |-> Or(article.content, ""), url |-> article.url,
     author |-> Or(article.author, ""), provider |-> "newsapi",
     publishedAt |-> article.publishedAt]

\* The per-city handler without its try/catch: the error leaves the handler.
cityCatchRethrow(city, msg) == [thrown |-> TRUE, entry |-> NoEntry]

\* catch (error) of the per-city handler: the error becomes the city's entry.
cityCatch(city, msg) ==
    [thrown |-> FALSE,
     entry  |-> [type |-> "weather", key |-> city, success |-> FALSE, error |-> msg, id |-> 0]]

\* catch (error) of the per-article handler: SQLSTATE 23505 is reported as
\* 'Duplicate article', every other error by its message.
articleCatch(article, err, msg) ==
    [type |-> "news", key |-> article.title, success |-> FALSE,
     error |-> IF err.code = "23505" THEN "Duplicate article" ELSE msg, id |-> 0]

\* The message of an error thrown by NeonNewsRepository.create.
NewsCreateMessage(err) ==
    CASE err.kind = "db" /\ err.code = "23505" -> "[NeonNewsRepository.create] duplicate key value"
      [] err.kind = "db" /\ err.code = "23502" -> "[NeonNewsRepository.create] null value in column"
      [] err.kind = "db" -> "[NeonNewsRepository.create] connection failure"
      [] err.kind = "TypeError" -> "[NeonNewsRepository.create] Cannot read properties of undefined"
      [] OTHER -> ""

\* A per-city task: fetching -> saving -> done.  failed: its fetch, its
\* validation or its INSERT failed; rowId: the row its INSERT stored (0: none);
\* answer: what the provider answered.
CityTaskStart ==
    [st |-> "fetching", data |-> NoWeatherData, entry |-> NoEntry, rowId |-> 0,
     failed |-> FALSE, answer |-> ""]

\* A per-article task: inserting -> done.  ran: its INSERT reached the
\* database; dup: the url was stored already when the INSERT ran.
ArticleTaskStart(article) ==
    LET data == ArticleData(article)
        v    == NeonNewsValidate(data)
    IN  IF v # ""
        THEN [st |-> "done", data |-> data, rowId |-> 0, failed |-> TRUE,
              ran |-> FALSE, dup |-> FALSE,
              entry |-> articleCatch(article, Err("validation", ""), v)]
        ELSE [st |-> "inserting", data |-> data, rowId |-> 0, failed |-> FALSE,
              ran |-> FALSE, dup |-> FALSE, entry |-> NoEntry]

AllDone(tasks) == \A k \in DOMAIN tasks : tasks[k].st = "done"

\* return unifiedResults: the cities' entries in the order of CITIES, then
\* the articles' entries in the order of the transformed articles.
UnifiedResults(ct, at) ==
    [i \in DOMAIN CityList |-> ct[CityList[i]].entry] \o [i \in DOMAIN at |-> at[i].entry]

\* The job after a city's handler has ended: the outer catch rethrows what
\* left the handler; when all handlers have ended the headlines are asked for.
AfterCity(j, ct, thrown) ==
    IF thrown THEN [j EXCEPT !.pc = "thrown", !.cause = "city"]
    ELSE IF AllDone(ct) THEN [j EXCEPT !.pc = "headlines"]
    ELSE j

\* The job after an article's handler has ended.
AfterArticle(j, ct, at) ==
    IF AllDone(at) THEN [j EXCEPT !.pc = "done", !.result = UnifiedResults(ct, at)]
    ELSE j

\* fetchData is called (scheduled or over HTTP); initWeatherRepository and
\* initNewsRepository answer.  A failed initialization is rethrown.
JobStart(init) ==
    /\ job.pc = "idle"
    /\ job' = IF init = "ok"
              THEN [job EXCEPT !.pc = "weather", !.cause = "", !.result = <<>>]
              ELSE [job EXCEPT !.pc = "thrown", !.cause = "init", !.result = <<>>]
    /\ cityTask' = IF init = "ok" THEN [c \in Cities |-> CityTaskStart] ELSE <<>>
    /\ artTask' = <<>>
    /\ UNCHANGED <<news, weather, newsSeq, weatherSeq, svc, calls, last, neonResult, repo, app>>

\* The weather provider answers for a city: the handler goes on to
\* weatherRepository.save, which validates and sends its INSERT.
CityFetchSettle(c, answer) ==
    /\ job.pc = "weather"
    /\ cityTask[c].st = "fetching"
    /\ LET got == getCurrentWeather(c, answer)
           v   == IF got.err = "" THEN validateWeatherData(Js(got.data)).error ELSE got.err
           h   == cityCatch(c, v)
           ct  == [cityTask EXCEPT ![c] =
                     IF v = ""
                     THEN [@ EXCEPT !.st = "saving", !.data = got.data, !.answer = answer]
                     ELSE [@ EXCEPT !.st = "done", !.failed = TRUE, !.entry = h.entry,
                                    !.answer = answer]]
       IN  /\ cityTask' = ct
           /\ job' = AfterCity(job, ct, v # "" /\ h.thrown)
    /\ UNCHANGED <<news, weather, newsSeq, weatherSeq, svc, calls, artTask, last, neonResult, repo, app>>

\* The database answers a city's INSERT: the handler reads record.id and
\* returns the city's entry.
CitySaveSettle(c, dbOk) ==
    /\ job.pc = "weather"
    /\ cityTask[c].st = "saving"
    /\ LET r   == NeonWeatherSaveSettle(weather, weatherSeq, cityTask[c].data, dbOk, neonResult)
           msg == IF r.err # NoError THEN "Repository save operation failed"
                  ELSE IF r.id = 0 THEN "Cannot read properties of undefined (reading 'id')"
                  ELSE ""
           h   == cityCatch(c, msg)
           ct  == [cityTask EXCEPT ![c] =
                     [@ EXCEPT !.st = "done", !.failed = (r.err # NoError),
                        !.rowId = IF r.err = NoError THEN r.seq ELSE 0,
                        !.entry = IF msg = ""
                                  THEN [type |-> "weather", key |-> c, success |-> TRUE,
                                        error |-> "", id |-> r.id]
                                  ELSE h.entry]]
       IN  /\ weather' = r.tbl
           /\ weatherSeq' = r.seq
           /\ cityTask' = ct
           /\ job' = AfterCity(job, ct, msg # "" /\ h.thrown)
    /\ UNCHANGED <<news, newsSeq, svc, calls, artTask, last, neonResult, repo, app>>

\* The news provider answers: a failure leaves fetchData through its outer
\* catch, which rethrows; otherwise one create is started per article.
HeadlinesSettle(answer) ==
    /\ job.pc = "headlines"
    /\ LET got == getTopHeadlines(answer)
           at  == [i \in DOMAIN got.articles |-> ArticleTaskStart(got.articles[i])]
       IN  IF got.err # ""
           THEN /\ job' = [job EXCEPT !.pc = "thrown", !.cause = "headlines",
                                       !.headlines = answer]
                /\ artTask' = <<>>
           ELSE /\ artTask' = at
                /\ job' = AfterArticle([job EXCEPT !.pc = "articles", !.headlines = answer],
                                       cityTask, at)
    /\ UNCHANGED <<news, weather, newsSeq, weatherSeq, svc, calls, cityTask, last, neonResult, repo, app>>

\* The database answers an article's INSERT.
ArticleInsertSettle(i, dbOk) ==
    /\ job.pc = "articles"
    /\ i \in DOMAIN artTask
    /\ artTask[i].st = "inserting"
    /\ LET t   == artTask[i]
           r   == NeonNewsCreateSettle(news, newsSeq, t.data, dbOk, neonResult)
           row == CHOOSE x \in r.tbl : x.id = r.id
           at  == [artTask EXCEPT ![i] =
                     [@ EXCEPT !.st = "done", !.ran = dbOk,
                        !.dup = dbOk /\ (\E x \in news : x.url = t.data.url),
                        !.failed = (r.tbl = news),
                        !.rowId = IF r.tbl = news THEN 0 ELSE r.seq,
                        !.entry = IF r.err = NoError
                                  THEN [type |-> "news", key |-> row.title, success |-> TRUE,
                                        error |-> "", id |-> row.id]
                                  ELSE articleCatch(t.data, r.err, NewsCreateMessage(r.err))]]
       IN  /\ news' = r.tbl
           /\ newsSeq' = r.seq
           /\ artTask' = at
           /\ job' = AfterArticle(job, cityTask, at)
    /\ UNCHANGED <<weather, weatherSeq, svc, calls, cityTask, last, neonResult, repo, app>>

\* The database has answered every INSERT of the current run (no statement
\* was lost with the connection).
DatabaseAnswered ==
    /\ \A c \in DOMAIN cityTask :
          cityTask[c].entry.error # "Repository save operation failed"
    /\ \A i \in DOMAIN artTask :
          artTask[i].entry.error # NewsCreateMessage(Err("db", "08006"))

\* The next scheduled run of fetchData starts after the run before it has
\* ended (returned, or thrown after its repositories were initialized); its
\* repositories are initialized.  What the first run was given and left is
\* kept in job.first.
JobRerun ==
    /\ job.run = 1
    /\ job.pc \in {"done", "thrown"} /\ job.cause # "init"
    /\ job' = [pc |-> "weather", cause |-> "", result |-> <<>>, headlines |-> NoAnswer,
               run |-> 2,
               first |-> [news |-> news, weather |-> weather,
                          city |-> [c \in Cities |-> cityTask[c].answer],
                          headlines |-> job.headlines,
                          db |-> DatabaseAnswered]]
    /\ cityTask' = [c \in Cities |-> CityTaskStart]
    /\ artTask' = <<>>
    /\ UNCHANGED <<news, weather, newsSeq, weatherSeq, svc, calls, last, neonResult, repo, app>>

(***************************************************************************)
(* Specification of the fetch job: one run of fetchData over the tables    *)
(* as earlier runs have left them.                                         *)
(***************************************************************************)
\* The news table before the run: empty, or holding an article of an
\* earlier run.
JobNewsTables == { {}, {NewsRow(1, "http://a", Null, "t1")} }

InitJob ==
    /\ news \in JobNewsTables
    /\ weather = {}
    /\ newsSeq = Cardinality(news)
    /\ weatherSeq = 0
    /\ svc = NewService
    /\ calls = [k \in CallIds |-> IdleCall]
    /\ job = IdleJob
    /\ cityTask = <<>>
    /\ artTask = <<>>
    /\ last = IdleLast
    /\ neonResult \in NeonResults
    /\ repo = "none"
    /\ app = NoApp

NextJob ==
    \/ \E init \in {"ok", "weather", "news"} : JobStart(init)
    \/ \E c \in Cities, a \in WeatherAnswers : CityFetchSettle(c, a)
    \/ \E c \in Cities, ok \in BOOLEAN : CitySaveSettle(c, ok)
    \/ \E a \in NewsAnswers : HeadlinesSettle(a)
    \/ \E i \in 1..MaxArticles, ok \in BOOLEAN : ArticleInsertSettle(i, ok)

SpecJob == InitJob /\ [][NextJob]_vars

\* The articles of the provider's answer whose content is not null.
WithContent(articles) == SelectSeq(articles, LAMBDA a : a.content # Null)

\* C27: the articles fetchData hands to newsRepository.create are exactly the
\* articles of the provider's answer whose content is not null, in the order
\* of the answer; no article with null content reaches a create.
C27_NullContentFiltered ==
    (job.pc \in {"articles", "done"}) =>
        LET kept == WithContent(job.headlines.articles) IN
        /\ Len(artTask) = Len(kept)
        /\ \A i \in DOMAIN artTask :
              /\ artTask[i].data.title = kept[i].title
              /\ artTask[i].data.url = kept[i].url
              /\ artTask[i].data.content = kept[i].content
              /\ artTask[i].data.content # Null

\* A run has returned whose answer held an article with null content after
\* one with content: only the latter was handed to create.
C27_Witness ==
    /\ job.pc = "done"
    /\ Len(job.headlines.articles) = 2
    /\ job.headlines.articles[1].content = Null
    /\ job.headlines.articles[2].content # Null
    /\ Len(artTask) = 1
    /\ artTask[1].data.title = job.headlines.articles[2].title

(***************************************************************************)
(* Specification of two runs of fetchData, the second one given the        *)
(* answers of the providers that the first one was given.                  *)
(***************************************************************************)
\* The answers of the news provider in the runs that are repeated.
RerunNewsAnswers ==
    { [status |-> "http", articles |-> <<>>],
      [status |-> "ok", articles |-> <<>>],
      [status |-> "ok", articles |->
          <<RawArticle("T1", "D", "C", "http://a"), RawArticle("T3", "D", "C", "http://a")>>],
      [status |-> "ok", articles |->
          <<RawArticle("T2", "D", "C", "http://b"), RawArticle("T4", "D", Null, "http://c")>>] }

InitRerun ==
    /\ news \in JobNewsTables
    /\ weather = {}
    /\ newsSeq = Cardinality(news)
    /\ weatherSeq = 0
    /\ svc = NewService
    /\ calls = [k \in CallIds |-> IdleCall]
    /\ job = IdleJob
    /\ cityTask = <<>>
    /\ artTask = <<>>
    /\ last = IdleLast
    /\ neonResult \in NeonResults
    /\ repo = "none"
    /\ app = NoApp

\* In the second run every provider answers what it answered in the first.
NextRerun ==
    \/ \E init \in {"ok", "weather", "news"} : JobStart(init)
    \/ JobRerun
    \/ \E c \in Cities, a \in WeatherAnswers :
          (job.run = 2 => a = job.first.city[c]) /\ CityFetchSettle(c, a)
    \/ \E c \in Cities, ok \in BOOLEAN : CitySaveSettle(c, ok)
    \/ \E a \in RerunNewsAnswers :
          (job.run = 2 => a = job.first.headlines) /\ HeadlinesSettle(a)
    \/ \E i \in DOMAIN artTask, ok \in BOOLEAN : ArticleInsertSettle(i, ok)

SpecRerun == InitRerun /\ [][NextRerun]_vars

(***************************************************************************)
(* Claims about the fetch job (checked under SpecJob).                     *)
(***************************************************************************)
\* The create's data pass the NOT NULL constraints of the table, so that its
\* INSERT gets as far as the unique index.
NotNullOk(data) ==
    \A f \in NewsNotNull : NeonNewsCreateValues(data)[f] \notin {Null, Undef}

ArticleDone(i) == i \in DOMAIN artTask /\ artTask[i].st = "done"

CityPersisted(c) ==
    \E r \in weather : r.id = cityTask[c].rowId /\ r.city = cityTask[c].data.city
ArticlePersisted(i) ==
    \E r \in news : r.id = artTask[i].rowId /\ r.url = artTask[i].data.url

\* C6: no failure of a city's or of an article's fetch or write makes
\* fetchData throw; once the cities' handlers are over every city whose
\* operations did not fail has its row stored; when fetchData returns, every
\* article whose create did not fail has its row stored and the result holds
\* exactly one entry per city and one per transformed article, each a
\* success or carrying an error.
C6_ItemFailuresIsolated ==
    /\ (job.pc = "thrown") => job.cause \in {"init", "headlines"}
    /\ (job.pc \in {"headlines", "articles", "done"}) =>
          \A c \in Cities :
             /\ cityTask[c].st = "done"
             /\ ~cityTask[c].failed => CityPersisted(c)
    /\ (job.pc = "done") =>
          /\ \A i \in DOMAIN artTask :
                /\ artTask[i].st = "done"
                /\ ~artTask[i].failed => ArticlePersisted(i)
          /\ Len(job.result) = Cardinality(Cities) + Len(artTask)
          /\ \A c \in Cities :
                Cardinality({i \in DOMAIN job.result :
                    job.result[i].type = "weather" /\ job.result[i].key = c}) = 1
          /\ Cardinality({i \in DOMAIN job.result : job.result[i].type = "news"})
                = Len(artTask)
          /\ \A i \in DOMAIN job.result :
                job.result[i].success \/ job.result[i].error # ""

\* fetchData returned after a run in which one city and one article failed
\* while another city and another article were stored, with a success and
\* an error among the entries of the result.
C6_Witness ==
    /\ job.pc = "done"
    /\ \E c, d \in Cities :
          /\ cityTask[c].failed /\ ~cityTask[c].entry.success
          /\ ~cityTask[d].failed /\ CityPersisted(d)
    /\ \E i, j \in DOMAIN artTask :
          /\ artTask[i].failed /\ ~artTask[i].entry.success
          /\ ~artTask[j].failed /\ ArticlePersisted(j)
    /\ \E i, j \in DOMAIN job.result :
          job.result[i].success /\ ~job.result[j].success

\* C7: a non-2xx or malformed answer of the weather provider or of the news
\* provider becomes an error entry of the result and never makes fetchData
\* throw: a run throws only when the repositories could not be initialized.
C7_ProviderFailureBecomesEntry ==
    /\ \A c \in DOMAIN cityTask :
          (cityTask[c].st = "done" /\ cityTask[c].data = NoWeatherData) =>
             /\ ~cityTask[c].entry.success
             /\ cityTask[c].entry.error # ""
    /\ (job.pc = "thrown") => job.cause = "init"

(***************************************************************************)
(* Specification of the pipeline: runs of fetchData and requests to the    *)
(* aggregation service over the same two tables, in any interleaving.      *)
(***************************************************************************)
\* The answers of the providers in the pipeline.
PipelineWeatherAnswers == {"ok", "http"}
PipelineNewsAnswers ==
    { [status |-> "http", articles |-> <<>>],
      [status |-> "ok", articles |->
          <<RawArticle("T1", "D", "C", "http://a"), RawArticle("T2", "D", "C", "http://b")>>] }

InitPipeline == InitRerun /\ news = {}

\* The job's steps (a second run is given the answers of the first) and the
\* steps of one caller of getAggregatedData.
NextPipeline ==
    \/ JobStart("ok")
    \/ JobRerun
    \/ \E c \in Cities, a \in PipelineWeatherAnswers :
          (job.run = 2 => a = job.first.city[c]) /\ CityFetchSettle(c, a)
    \/ \E c \in Cities, ok \in BOOLEAN : CitySaveSettle(c, ok)
    \/ \E a \in PipelineNewsAnswers :
          (job.run = 2 => a = job.first.headlines) /\ HeadlinesSettle(a)
    \/ \E i \in DOMAIN artTask, ok \in BOOLEAN : ArticleInsertSettle(i, ok)
    \/ \E w \in {"newsCreate", "weatherCreate"}, o \in {"ok", "failed"} : CreateSettle(w, o)
    \/ \E q \in Queries : CallStart(1, "aggregate", q)
    \/ \E b \in Branches, ok \in BOOLEAN : FindSettle(1, b, ok)
    \/ \E b \in Branches, ok \in BOOLEAN : CountSettle(1, b, ok)
    \/ CallForget(1)

SpecPipeline == InitPipeline /\ [][NextPipeline]_vars

(***************************************************************************)
(* Claims about repeated runs of the fetch job (checked under SpecRerun).  *)
(***************************************************************************)
\* The cities of the run whose answer passed normalize and the validation of
\* the repository, so that their INSERT was sent.
FetchedCities(answers) == {c \in Cities : answers[c] = "ok"}

SecondRunEnded == job.run = 2 /\ job.pc \in {"done", "thrown"}

C24_PipelineOnlyInserts ==
    [][ /\ news \subseteq news'
        /\ weather \subseteq weather'
        /\ (calls' # calls \/ svc' # svc) => (news' = news /\ weather' = weather) ]_vars

\* After two runs of fetchData that stored rows, a getAggregatedData call has
\* returned news items.
C24_Witness ==
    /\ job.run = 2 /\ job.pc = "done"
    /\ job.first.news # {} /\ job.first.weather # {}
    /\ Cardinality(weather) > Cardinality(job.first.weather)
    /\ Returned(1) /\ Len(calls[1].resp.news.items) > 0

(***************************************************************************)
(* The four repositories, called directly.                                 *)
(*                                                                         *)
(* A method is modelled by its outcome on a table: the table and the       *)
(* sequence after the call, the error it throws (NoError: it returns) and  *)
(* what it returns: [kind, id] with kind "row" (the row with that id),     *)
(* "undefined", "true", "false" or "none" (it threw).                      *)
(***************************************************************************)
Ret(kind, id) == [kind |-> kind, id |-> id]
Outcome(tbl, seq, err, ret) == [tbl |-> tbl, seq |-> seq, err |-> err, ret |-> ret]
Threw(tbl, seq, err) == Outcome(tbl, seq, err, Ret("none", 0))

HasId(tbl, id) == \E r \in tbl : r.id = id
RowOf(tbl, id) == CHOOSE r \in tbl : r.id = id

\* sanitizeNewsData: the string fields that are set are sanitized.
sanitizeNewsData(data) ==
    [f \in DOMAIN data |->
        IF f \in {"title", "description", "content", "url", "author", "provider"}
           /\ Truthy(data[f])
        THEN sanitizeString(data[f]) ELSE data[f]]

\* validateNewsData: sanitizes, then validates the sanitized copy and
\* returns it.  err is the message ("" when the data pass).
validateNewsData(data) ==
    LET sanitized == sanitizeNewsData(data)
    IN  [err |-> NeonNewsValidate(sanitized), data |-> sanitized]

\* UPDATE news SET <vals> WHERE id = <id> RETURNING *: the fields of vals
\* that are given replace the row's; the constraints are checked on the new
\* row.  No row with that id: nothing happens, no row is returned.
NewsUpdateRows(tbl, seq, id, vals) ==
    IF ~HasId(tbl, id) THEN Outcome(tbl, seq, NoError, Ret("undefined", 0))
    ELSE LET old == RowOf(tbl, id)
             new == [f \in DOMAIN old |->
                        IF f \in DOMAIN vals /\ vals[f] # Undef THEN vals[f] ELSE old[f]]
         IN  IF \E f \in NewsNotNull : new[f] = Null
             THEN Threw(tbl, seq, Err("db", "23502"))
             ELSE IF UniqueViolation(tbl \ {old}, new.url)
             THEN Threw(tbl, seq, Err("db", "23505"))
             ELSE Outcome((tbl \ {old}) \cup {new}, seq, NoError, Ret("row", id))

\* DELETE FROM news WHERE id = <id>.
DeleteRows(tbl, id) == {r \in tbl : r.id # id}

\* SequelizeNewsRepository.create: validate, then model.create, which
\* rejects a null in an allowNull: false attribute before any statement.
SequelizeNewsCreate(tbl, seq, data) ==
    LET v    == validateNewsData(data)
        vals == [v.data EXCEPT !.publishedAt = Or(@, Now)]
    IN  IF v.err # "" THEN Threw(tbl, seq, Err("validation", ""))
        ELSE IF \E f \in NewsNotNull : vals[f] \in {Null, Undef}
        THEN Threw(tbl, seq, Err("orm", "notNull"))
        ELSE LET r == NewsInsert(tbl, seq, vals)
             IN  Outcome(r.tbl, r.seq, r.err,
                         IF r.err = NoError THEN Ret("row", r.id) ELSE Ret("none", 0))

\* SequelizeNewsRepository.save: with an id, model.update of the sanitized
\* data and the first row it returned (undefined when there is none);
\* without, create of the sanitized data.
SequelizeNewsSave(tbl, seq, data, id) ==
    LET v == validateNewsData(data)
    IN  IF v.err # "" THEN Threw(tbl, seq, Err("validation", ""))
        ELSE IF id # 0 THEN NewsUpdateRows(tbl, seq, id, v.data)
        ELSE SequelizeNewsCreate(tbl, seq, v.data)

\* SequelizeNewsRepository.update: validate, model.update of the data as
\* given, 'Article with ID ... not found' when no row came back.
SequelizeNewsUpdate(tbl, seq, id, data) ==
    LET v == validateNewsData(data)
        r == NewsUpdateRows(tbl, seq, id, data)
    IN  IF v.err # "" THEN Threw(tbl, seq, Err("validation", ""))
        ELSE IF r.err = NoError /\ r.ret.kind = "undefined"
        THEN Threw(tbl, seq, Err("notfound", ""))
        ELSE r

\* SequelizeNewsRepository.delete: model.destroy, count > 0.
SequelizeNewsDelete(tbl, seq, id) ==
    Outcome(DeleteRows(tbl, id), seq, NoError,
            Ret(IF HasId(tbl, id) THEN "true" ELSE "false", 0))

\* What a method of NeonNewsRepository makes of an answered statement: it
\* reads result.rows, which is undefined when the driver answers with an
\* array, so that the method throws a TypeError after the statement ran.
NeonNewsRead(out, shape) ==
    IF out.err = NoError /\ shape = "array"
    THEN Threw(out.tbl, out.seq, Err("TypeError", ""))
    ELSE out

\* NeonNewsRepository.create.
NeonNewsCreate(tbl, seq, data, shape) ==
    IF NeonNewsValidate(data) # "" THEN Threw(tbl, seq, Err("validation", ""))
    ELSE LET r == NeonNewsCreateSettle(tbl, seq, data, TRUE, shape)
         IN  Outcome(r.tbl, r.seq, r.err,
                     IF r.err = NoError THEN Ret("row", r.id) ELSE Ret("none", 0))

\* NeonNewsRepository.save: with an id, an UPDATE that sets every column
\* from the data and 'Article with ID ... not found' when no row came back;
\* without, create.
NeonNewsSave(tbl, seq, data, id, shape) ==
    IF NeonNewsValidate(data) # "" THEN Threw(tbl, seq, Err("validation", ""))
    ELSE IF id # 0
    THEN LET r == NeonNewsRead(NewsUpdateRows(tbl, seq, id, NeonNewsCreateValues(data)), shape)
         IN  IF r.err = NoError /\ r.ret.kind = "undefined"
             THEN Threw(tbl, seq, Err("notfound", ""))
             ELSE r
    ELSE NeonNewsCreate(tbl, seq, data, shape)

\* The columns of the news table, and the columns NeonNewsRepository.update
\* names in its UPDATE.
NewsColumns ==
    {"id", "title", "description", "content", "url", "imageUrl", "publishedAt",
     "sourceName", "author", "provider", "createdAt"}
NeonNewsUpdateColumns ==
    {"title", "description", "content", "url", "image_url", "published_at",
     "source_name", "author", "provider", "updated_at"}

\* NeonNewsRepository.update: validate, then an UPDATE with COALESCE over
\* its columns; a statement that names a column the table does not have is
\* rejected by the database (SQLSTATE 42703) whatever the id.
NeonNewsUpdate(tbl, seq, id, data, shape) ==
    IF NeonNewsValidate(data) # "" THEN Threw(tbl, seq, Err("validation", ""))
    ELSE IF ~(NeonNewsUpdateColumns \subseteq NewsColumns)
    THEN Threw(tbl, seq, Err("db", "42703"))
    ELSE LET r == NeonNewsRead(NewsUpdateRows(tbl, seq, id, data), shape)
         IN  IF r.err = NoError /\ r.ret.kind = "undefined"
             THEN Threw(tbl, seq, Err("notfound", ""))
             ELSE r

\* NeonNewsRepository.delete: DELETE ... RETURNING id, rows.length > 0.
NeonNewsDelete(tbl, seq, id, shape) ==
    NeonNewsRead(Outcome(DeleteRows(tbl, id), seq, NoError,
                         Ret(IF HasId(tbl, id) THEN "true" ELSE "false", 0)), shape)

\* UPDATE weather: the fields of the patch replace the row's.
WeatherUpdateRow(tbl, id, patch) ==
    LET old == RowOf(tbl, id)
    IN  (tbl \ {old}) \cup {patch @@ old}

\* SequelizeWeatherRepository.save(data): validate, Weather.create.  The
\* method has one parameter; a second argument is not looked at.
SequelizeWeatherSave(tbl, seq, data) ==
    IF validateWeatherData(Js(data)) # Valid THEN Threw(tbl, seq, Err("validation", ""))
    ELSE LET r == WeatherInsert(tbl, seq, data)
         IN  Outcome(r.tbl, r.seq, NoError, Ret("row", r.id))

\* SequelizeWeatherRepository.update: findById, 'not found' when there is no
\* record, validation of the record merged with the data, record.update.
SequelizeWeatherUpdate(tbl, seq, id, patch) ==
    IF ~HasId(tbl, id) THEN Threw(tbl, seq, Err("notfound", ""))
    ELSE IF DOMAIN patch # {} /\ validateWeatherData(Js(patch @@ RowOf(tbl, id))) # Valid
    THEN Threw(tbl, seq, Err("validation", ""))
    ELSE Outcome(WeatherUpdateRow(tbl, id, patch), seq, NoError, Ret("row", id))

\* The rows a WHERE of equalities selects.
WeatherWhere(tbl, criteria) ==
    {r \in tbl : \A f \in DOMAIN criteria : r[f] = criteria[f]}

FirstRow(S) == CHOOSE r \in S : \A o \in S : r.id <= o.id

\* SequelizeWeatherRepository.findOrCreate: validate(data), then the ORM's
\* findOrCreate, which returns a row that matches the criteria or inserts
\* the defaults (a value of the defaults wins over one of the criteria).
SequelizeWeatherFindOrCreate(tbl, seq, criteria, data) ==
    IF validateWeatherData(Js(data)) # Valid THEN Threw(tbl, seq, Err("validation", ""))
    ELSE IF WeatherWhere(tbl, criteria) # {}
    THEN Outcome(tbl, seq, NoError, Ret("row", FirstRow(WeatherWhere(tbl, criteria)).id))
    ELSE LET r == WeatherInsert(tbl, seq, data)
         IN  Outcome(r.tbl, r.seq, NoError, Ret("row", r.id))

\* SequelizeWeatherRepository.delete: findById, 'not found' when there is no
\* record, record.destroy, true.
SequelizeWeatherDelete(tbl, seq, id) ==
    IF ~HasId(tbl, id) THEN Threw(tbl, seq, Err("notfound", ""))
    ELSE Outcome(DeleteRows(tbl, id), seq, NoError, Ret("true", 0))

\* NeonWeatherRepository.findById: result.length > 0 ? result[0] : null.
\* result.length is undefined when the driver answers with an object.
NeonWeatherFound(tbl, id, shape) == shape = "array" /\ HasId(tbl, id)

\* NeonWeatherRepository.save.
NeonWeatherSave(tbl, seq, data, shape) ==
    IF validateWeatherData(Js(data)) # Valid THEN Threw(tbl, seq, Err("validation", ""))
    ELSE LET r == NeonWeatherSaveSettle(tbl, seq, data, TRUE, shape)
         IN  Outcome(r.tbl, r.seq, NoError,
                     IF r.id = 0 THEN Ret("undefined", 0) ELSE Ret("row", r.id))

\* The fields of a weather record that hold numbers.
WeatherNumbers == {"temperature", "humidity"}

\* NeonWeatherRepository.update: findById, 'not found' when there is no
\* record, the record itself for an empty patch, validation of the merged
\* record, then UPDATE with a SET clause that holds every value as raw
\* text: a value that is not a number makes the statement fail.
NeonWeatherUpdate(tbl, seq, id, patch, shape) ==
    IF ~NeonWeatherFound(tbl, id, shape) THEN Threw(tbl, seq, Err("notfound", ""))
    ELSE IF DOMAIN patch = {} THEN Outcome(tbl, seq, NoError, Ret("row", id))
    ELSE IF validateWeatherData(Js(patch @@ RowOf(tbl, id))) # Valid
    THEN Threw(tbl, seq, Err("validation", ""))
    ELSE IF ~(DOMAIN patch \subseteq WeatherNumbers)
    THEN Threw(tbl, seq, Err("db", "42703"))
    ELSE Outcome(WeatherUpdateRow(tbl, id, patch), seq, NoError, Ret("row", id))

\* NeonWeatherRepository.findOrCreate: validate(data), a SELECT whose WHERE
\* holds every value of the criteria as raw text (no criterion: a syntax
\* error; a value that is not a number: an unknown column), the first row
\* when existingRecords.length > 0, else save(data).  existingRecords.length
\* is undefined when the driver answers with an object.
NeonWeatherFindOrCreate(tbl, seq, criteria, data, shape) ==
    IF validateWeatherData(Js(data)) # Valid THEN Threw(tbl, seq, Err("validation", ""))
    ELSE IF DOMAIN criteria = {} THEN Threw(tbl, seq, Err("db", "42601"))
    ELSE IF ~(DOMAIN criteria \subseteq WeatherNumbers)
    THEN Threw(tbl, seq, Err("db", "42703"))
    ELSE IF shape = "array" /\ WeatherWhere(tbl, criteria) # {}
    THEN Outcome(tbl, seq, NoError, Ret("row", FirstRow(WeatherWhere(tbl, criteria)).id))
    ELSE NeonWeatherSave(tbl, seq, data, shape)

\* NeonWeatherRepository.delete: findById, 'not found' when there is no
\* record, DELETE, true.
NeonWeatherDelete(tbl, seq, id, shape) ==
    IF ~NeonWeatherFound(tbl, id, shape) THEN Threw(tbl, seq, Err("notfound", ""))
    ELSE Outcome(DeleteRows(tbl, id), seq, NoError, Ret("true", 0))

(***************************************************************************)
(* The repositories behind their shared interface.                         *)
(***************************************************************************)
Repos == {"SequelizeWeather", "NeonWeather", "SequelizeNews", "NeonNews"}
IsNews(r) == r \in {"SequelizeNews", "NeonNews"}

\* repository.save(data, id); id = 0: no id is given.
Save(r, tbl, seq, data, id, shape) ==
    CASE r = "SequelizeWeather" -> SequelizeWeatherSave(tbl, seq, data)
      [] r = "NeonWeather"      -> NeonWeatherSave(tbl, seq, data, shape)
      [] r = "SequelizeNews"    -> SequelizeNewsSave(tbl, seq, data, id)
      [] r = "NeonNews"         -> NeonNewsSave(tbl, seq, data, id, shape)

\* repository.create(data).  The weather repositories and their interface
\* have no create: the call is a TypeError (not a function).
Create(r, tbl, seq, data, shape) ==
    CASE r = "SequelizeNews" -> SequelizeNewsCreate(tbl, seq, data)
      [] r = "NeonNews"      -> NeonNewsCreate(tbl, seq, data, shape)
      [] OTHER               -> Threw(tbl, seq, Err("TypeError", ""))

\* repository.update(id, data).
Update(r, tbl, seq, id, data, shape) ==
    CASE r = "SequelizeWeather" -> SequelizeWeatherUpdate(tbl, seq, id, data)
      [] r = "NeonWeather"      -> NeonWeatherUpdate(tbl, seq, id, data, shape)
      [] r = "SequelizeNews"    -> SequelizeNewsUpdate(tbl, seq, id, data)
      [] r = "NeonNews"         -> NeonNewsUpdate(tbl, seq, id, data, shape)

\* repository.findOrCreate(criteria, data).  The news repositories and their
\* interface have no findOrCreate: the call is a TypeError (not a function).
FindOrCreate(r, tbl, seq, criteria, data, shape) ==
    CASE r = "SequelizeWeather" -> SequelizeWeatherFindOrCreate(tbl, seq, criteria, data)
      [] r = "NeonWeather"      -> NeonWeatherFindOrCreate(tbl, seq, criteria, data, shape)
      [] OTHER                  -> Threw(tbl, seq, Err("TypeError", ""))

\* repository.delete(id).
Delete(r, tbl, seq, id, shape) ==
    CASE r = "SequelizeWeather" -> SequelizeWeatherDelete(tbl, seq, id)
      [] r = "NeonWeather"      -> NeonWeatherDelete(tbl, seq, id, shape)
      [] r = "SequelizeNews"    -> SequelizeNewsDelete(tbl, seq, id)
      [] r = "NeonNews"         -> NeonNewsDelete(tbl, seq, id, shape)

(***************************************************************************)
(* Direct calls on one repository.  Every call is one action: the method   *)
(* runs from its call to its return or throw.  last keeps what the claims  *)
(* need of the call: the operation, its id, whether the id was absent from *)
(* the table, the error and the returned value, whether the table was left *)
(* as it was, whether exactly the row of the id was removed and, for save, *)
(* whether update (id given) or create (no id) has the same outcome on the *)
(* same table.                                                             *)
(***************************************************************************)
NewsInput(title, description, content, url) ==
    [title |-> title, description |-> description, content |-> content, url |-> url,
     author |-> Undef, provider |-> "newsapi", publishedAt |-> "t1"]

NewsInputs ==
    { NewsInput("T", "D", "C", "http://a"),
      NewsInput("T", "D", "C", "http://b"),
      NewsInput("O'N", "D", "C", "http://a"),
      NewsInput("T", "D", "", "http://a"),
      NewsInput("T", "", "C", "http://b") }

WeatherInput(city, temperature, humidity) ==
    [provider |-> "openweathermap", city |-> city, temperature |-> temperature,
     humidity |-> humidity, timestamp |-> "t1"] @@ WeatherDefaults

WeatherInputs ==
    { WeatherInput("Hanoi", 25, 60), WeatherInput("Hue", 25, 60),
      WeatherInput("Hanoi", 25, 150),
      [WeatherInput("Hanoi", 25, 60) EXCEPT !.timestamp = "t5"],
      [WeatherInput("Hanoi", 25, 60) EXCEPT !.provider = "javascript:openweathermap"] }

\* The criteria of findOrCreate.
WeatherCriteriaInputs == { <<>>, [city |-> "Hanoi"], [temperature |-> 25] }

\* The data of a partial update of a weather record.
WeatherPatches == { <<>>, [temperature |-> 30], [humidity |-> 150] }

Inputs(r) == IF IsNews(r) THEN NewsInputs ELSE WeatherInputs
Patches(r) == IF IsNews(r) THEN NewsInputs ELSE WeatherInputs \cup WeatherPatches

Table == IF IsNews(repo) THEN news ELSE weather
Sequence == IF IsNews(repo) THEN newsSeq ELSE weatherSeq

\* Two calls have the same result and the same effect on the store.
SameOutcome(a, b) == a.tbl = b.tbl /\ a.err.kind = b.err.kind /\ a.ret = b.ret

Called(op, id, out, same) ==
    [op |-> op, id |-> id, absent |-> id # 0 /\ ~HasId(Table, id),
     err |-> out.err, ret |-> out.ret, unchanged |-> out.tbl = Table,
     exact |-> HasId(Table, id) /\ out.tbl = Table \ {RowOf(Table, id)},
     same |-> same]

Stored(out) ==
    /\ news' = IF IsNews(repo) THEN out.tbl ELSE news
    /\ newsSeq' = IF IsNews(repo) THEN out.seq ELSE newsSeq
    /\ weather' = IF IsNews(repo) THEN weather ELSE out.tbl
    /\ weatherSeq' = IF IsNews(repo) THEN weatherSeq ELSE out.seq
    /\ UNCHANGED <<svc, calls, job, cityTask, artTask, neonResult, repo, app>>

RepoSave(data, id) ==
    /\ repo \in Repos
    /\ (id = 0 \/ ~IsNews(repo)) => Sequence < MaxRows
    /\ LET out == Save(repo, Table, Sequence, data, id, neonResult)
           ref == IF id # 0 THEN Update(repo, Table, Sequence, id, data, neonResult)
                  ELSE Create(repo, Table, Sequence, data, neonResult)
       IN  /\ last' = Called("save", id, out, SameOutcome(out, ref))
           /\ Stored(out)

RepoCreate(data) ==
    /\ repo \in Repos
    /\ Sequence < MaxRows
    /\ LET out == Create(repo, Table, Sequence, data, neonResult)
       IN  /\ last' = Called("create", 0, out, TRUE)
           /\ Stored(out)

RepoUpdate(id, data) ==
    /\ repo \in Repos
    /\ LET out == Update(repo, Table, Sequence, id, data, neonResult)
       IN  /\ last' = Called("update", id, out, TRUE)
           /\ Stored(out)

RepoFindOrCreate(criteria, data) ==
    /\ repo \in Repos
    /\ Sequence < MaxRows
    /\ LET out == FindOrCreate(repo, Table, Sequence, criteria, data, neonResult)
       IN  /\ last' = Called("findOrCreate", 0, out, TRUE)
           /\ Stored(out)

RepoDelete(id) ==
    /\ repo \in Repos
    /\ LET out == Delete(repo, Table, Sequence, id, neonResult)
       IN  /\ last' = Called("delete", id, out, TRUE)
           /\ Stored(out)

(***************************************************************************)
(* Specification of the repositories: any sequence of direct calls on one  *)
(* repository over its table, which starts empty.                          *)
(***************************************************************************)
InitRepo ==
    /\ news = {}
    /\ weather = {}
    /\ newsSeq = 0
    /\ weatherSeq = 0
    /\ svc = NewService
    /\ calls = [k \in CallIds |-> IdleCall]
    /\ job = IdleJob
    /\ cityTask = <<>>
    /\ artTask = <<>>
    /\ last = IdleLast
    /\ repo \in Repos
    /\ app = NoApp
    /\ neonResult \in IF repo \in {"NeonWeather", "NeonNews"} THEN NeonResults ELSE {"array"}

NextRepo ==
    \/ \E d \in Inputs(repo), id \in 0..MaxRows : RepoSave(d, id)
    \/ \E d \in Inputs(repo) : RepoCreate(d)
    \/ \E d \in Patches(repo), id \in 1..MaxRows : RepoUpdate(id, d)
    \/ \E id \in 1..MaxRows : RepoDelete(id)
    \/ \E c \in WeatherCriteriaInputs, d \in Inputs(repo) : RepoFindOrCreate(c, d)

SpecRepo == InitRepo /\ [][NextRepo]_vars

(***************************************************************************)
(* Claims about the repositories (checked under SpecRepo).                 *)
(***************************************************************************)
\* C8: for every repository, save(data, id) with an id has the same result
\* and the same effect on the store as update(id, data), not-found for an
\* absent id included, and save(data) has the same result and effect as
\* create(data).
C8_SaveIsUpdateOrCreate ==
    (last.op = "save") => last.same

\* C9: for every repository, update(id, data) with an id that is not stored
\* fails with a not-found error and leaves every stored row unchanged.
C9_UpdateAbsentNotFound ==
    (last.op = "update" /\ last.absent) =>
        (last.err.kind = "notfound" /\ last.unchanged)

\* C10: for every repository, delete(id) with an id that is not stored is
\* reported as a not-found error and leaves the store unchanged; delete(id)
\* with a stored id removes exactly that row.
C10_DeleteAbsentNotFound ==
    (last.op = "delete") =>
        IF last.absent THEN last.err.kind = "notfound" /\ last.unchanged
        ELSE last.exact

\* The ranges of validateNumericRanges, as stated for a stored row.
C14_InRanges(row) ==
    /\ row.temperature \in -100..70 /\ row.feelsLike \in -100..70
    /\ row.humidity \in 0..100 /\ row.pressure \in 800..1200
    /\ row.windSpeed \in 0..150 /\ row.windDirection \in 0..360

C14_RowValid(row) ==
    /\ row.provider \in {"openweathermap", "accuweather"}
    /\ TimeRank(row.timestamp) \in 1..TimeRank(MaxFuture)
    /\ C14_InRanges(row)

\* C14: after any sequence of save, findOrCreate and update calls on a
\* weather repository, every stored weather row has a provider of the allowed
\* set, a timestamp at most 24 hours after the write and numbers within the
\* validated ranges; a write that fails leaves the store unchanged.
C14_StoredWeatherValid ==
    /\ \A row \in weather : C14_RowValid(row)
    /\ (~IsNews(repo) /\ last.op \in {"save", "findOrCreate", "update"}) =>
           (last.err # NoError => last.unchanged)

\* The string fields of a news row that the inputs of the model set.
C15_Strings == {"title", "description", "content", "url", "provider"}

\* C15: on both news repositories every string field of a row written by
\* create, save or update is the sanitized form of the input: the input
\* sanitized exactly once.
C15_StoredNewsSanitizedOnce ==
    \A row \in news : \A f \in C15_Strings :
        \/ row[f] = Null
        \/ \E d \in NewsInputs : row[f] = sanitizeString(d[f])

(***************************************************************************)
(* The repository factories (repositories/news/index.js and                *)
(* repositories/weather/index.js).  A class is named as in Repos; its own  *)
(* methods are the ones its class body defines, the others are looked up   *)
(* on the interface class it extends.                                      *)
(***************************************************************************)
NewsRepositoryMethods ==
    {"create", "findById", "findByProvider", "search", "update", "delete", "validate",
     "findAll", "count"}

WeatherRepositoryInterfaceMethods ==
    {"checkConnection", "save", "findById", "findAll", "findOrCreate", "update", "delete",
     "validate", "findLatestByCity", "getStatsByCity", "count"}

\* The methods the class body of each adapter defines.
OwnMethods(cls) ==
    CASE cls = "SequelizeNews" ->
            {"save", "create", "findById", "findByProvider", "update", "delete", "validate",
             "findAll", "count"}
      [] cls = "NeonNews" ->
            {"save", "create", "findById", "findByProvider", "search", "update", "delete",
             "findAll", "count", "validate", "checkConnection"}
      [] cls = "SequelizeWeather" ->
            {"checkConnection", "save", "findById", "findAll", "findOrCreate", "update",
             "delete", "validate", "findLatestByCity", "getStatsByCity"}
      [] cls = "NeonWeather" ->
            {"checkConnection", "save", "findById", "findAll", "findOrCreate", "update",
             "delete", "validate", "findLatestByCity", "getStatsByCity", "count"}

\* typeof instance[method] === 'function': the property lookup walks the
\* prototype chain, so a stub of the interface class answers it too.
TypeofFunction(cls, method) ==
    \/ method \in OwnMethods(cls)
    \/ method \in (IF IsNews(cls) THEN NewsRepositoryMethods
                   ELSE WeatherRepositoryInterfaceMethods)

\* The methods each factory requires of an instance.
RequiredMethods(cls) ==
    IF IsNews(cls)
    THEN {"create", "findById", "findByProvider", "search", "update", "delete", "validate"}
    ELSE WeatherRepositoryInterfaceMethods

\* "" when the instance passes, the message of the error otherwise.
validateRepositoryImplementation(cls) ==
    IF \A m \in RequiredMethods(cls) : TypeofFunction(cls, m)
    THEN ""
    ELSE "Repository implementation missing required method"

RepositoryTypes == {Undef, "", "sequelize", "neon", "NEON", "mongodb"}
Configs == {"given", "empty"}

\* String.prototype.toLowerCase over the strings of the model.
toLowerCase(type) ==
    CASE type = "NEON"        -> "neon"
      [] type = "HCM"         -> "hcm"
      [] type = "Saigon"      -> "saigon"
      [] type = " SAIGON "    -> " saigon "
      [] type = "Ho Chi Minh" -> "ho chi minh"
      [] type = "HUE"         -> "hue"
      [] type = "Da Nang"     -> "da nang"
      [] OTHER                -> type

NoInstance == "none"
Rejected(msg) == [err |-> msg, instance |-> NoInstance]
Created(cls) ==
    IF validateRepositoryImplementation(cls) = ""
    THEN [err |-> "", instance |-> cls]
    ELSE Rejected("Failed to create repository: Repository implementation missing required method")

createNewsRepository(type, config) ==
    IF type \in {Undef, ""} THEN Rejected("Repository type is required")
    ELSE CASE toLowerCase(type) = "sequelize" ->
                IF config = "empty"
                THEN Rejected("Failed to create repository: Sequelize News model is required")
                ELSE Created("SequelizeNews")
           [] toLowerCase(type) = "neon" ->
                IF config = "empty"
                THEN Rejected("Failed to create repository: Neon repository requires either connectionString or connection parameters")
                ELSE Created("NeonNews")
           [] OTHER -> Rejected("Failed to create repository: Unsupported repository type")

createWeatherRepository(type, config) ==
    IF type \in {Undef, ""} THEN Rejected("Repository type is required")
    ELSE CASE toLowerCase(type) = "sequelize" ->
                IF config = "empty"
                THEN Rejected("Failed to create repository: Sequelize repository requires a model configuration")
                ELSE Created("SequelizeWeather")
           [] toLowerCase(type) = "neon" ->
                IF config = "empty"
                THEN Rejected("Failed to create repository: Neon repository requires either connectionString or connection parameters")
                ELSE Created("NeonWeather")
           [] OTHER -> Rejected("Failed to create repository: Unsupported repository type")

(***************************************************************************)
(* Calls of the library functions.  Each action is one call: it records    *)
(* the function, its argument and its result, and touches nothing else.    *)
(***************************************************************************)
LibraryOnly ==
    UNCHANGED <<news, weather, newsSeq, weatherSeq, svc, calls, job, cityTask, artTask,
                last, neonResult, repo>>

CallCreateNewsRepository(type, config) ==
    /\ app' = [fn |-> "createNewsRepository", arg |-> [type |-> type, config |-> config],
               out |-> createNewsRepository(type, config)]
    /\ LibraryOnly

CallCreateWeatherRepository(type, config) ==
    /\ app' = [fn |-> "createWeatherRepository", arg |-> [type |-> type, config |-> config],
               out |-> createWeatherRepository(type, config)]
    /\ LibraryOnly

\* The weather records validateWeatherData is called with: a record that
\* passes, and that record with one field changed.
ValidWeather == Js(WeatherInput("Hanoi", 25, 60))

RangeSamples ==
    {-101, -100, -1, 0, 70, 71, 100, 101, 150, 151, 360, 361, 799, 800, 1200, 1201}

WeatherRecords ==
    {ValidWeather}
    \cup {[ValidWeather EXCEPT ![f] = v] :
            f \in WeatherFields, v \in {Undefined, NullValue, Str("")}}
    \cup {[ValidWeather EXCEPT ![rangeValidations[i].field] = Num(n)] :
            i \in 1..Len(rangeValidations), n \in RangeSamples}
    \cup {[ValidWeather EXCEPT !["provider"] = Str("accuweather")],
          [ValidWeather EXCEPT !["provider"] = Str("metoffice")],
          [ValidWeather EXCEPT !["provider"] = Num(1)],
          [ValidWeather EXCEPT !["temperature"] = Str("25")],
          [ValidWeather EXCEPT !["latitude"] = Num(200)],
          [ValidWeather EXCEPT !["timestamp"] = Str("yesterday")],
          [ValidWeather EXCEPT !["timestamp"] = Str("t4")],
          [ValidWeather EXCEPT !["timestamp"] = Str("t5")]}

CallValidateWeatherData(data) ==
    /\ app' = [fn |-> "validateWeatherData", arg |-> data, out |-> validateWeatherData(data)]
    /\ LibraryOnly

\* The arguments getPaginationMetadata is called with: pages from 1, limits
\* from 1 and totals from 0, and the example of 95 items in pages of 20.
MaxPage == 6
MaxLimit == 3
MaxTotal == 6
PageArgs == 1..MaxPage
LimitArgs == (1..MaxLimit) \cup {20}
TotalArgs == (0..MaxTotal) \cup {95}

CallGetPaginationMetadata(page, limit, totalItems) ==
    /\ app' = [fn |-> "getPaginationMetadata",
               arg |-> [page |-> page, limit |-> limit, totalItems |-> totalItems],
               out |-> getPaginationMetadata([page |-> page, limit |-> limit], totalItems)]
    /\ LibraryOnly

\* The query strings getPaginationParams is called with.
PageQueries ==
    { [page |-> pg, limit |-> l, offset |-> o] :
        pg \in {Undef, "", "0", "1", "2", "-1", "abc"},
        l \in {Undef, "0", "1", "2", "5", "-1", "abc"},
        o \in {Undef, "0", "1", "3", "-1", "abc"} }

CallGetPaginationParams(query) ==
    /\ app' = [fn |-> "getPaginationParams", arg |-> query, out |-> getPaginationParams(query)]
    /\ LibraryOnly

(***************************************************************************)
(* The filters of a request (middleware/schemas/index.js and               *)
(* middleware/queryBuilder.js).  A query, a set of filters and a where     *)
(* clause are functions from the keys that are set to JavaScript values;   *)
(* a criterion is an object whose keys are the operators of the ORM.       *)
(***************************************************************************)
Obj(o) == [type |-> "object", obj |-> o]
Date(t) == [type |-> "date", date |-> t]
Arr(items) == [type |-> "array", items |-> items]
NotANumber == [type |-> "number", num |-> "NaN"]

\* Number(value) over the query strings of the model.
Number(v) ==
    CASE v = "10" -> Num(10) [] v = "20" -> Num(20) [] v = "30" -> Num(30)
      [] v = ""   -> Num(0)
      [] OTHER    -> NotANumber

\* `${value}` over the values of the model.
TemplateString(v) ==
    CASE v.type = "string"    -> v.str
      [] v.type = "object"    -> "[object Object]"
      [] v.type = "undefined" -> "undefined"
      [] v.type = "array" /\ v.items = <<Str("10"), Str("20")>> -> "10,20"
      [] OTHER                -> "?"

weatherFilters ==
    [city           |-> [type |-> "string"],
     country        |-> [type |-> "string"],
     provider       |-> [type |-> "string", allowed |-> {"openweathermap", "accuweather"}],
     minTemperature |-> [type |-> "number"],
     maxTemperature |-> [type |-> "number"],
     fromDate       |-> [type |-> "date"],
     toDate         |-> [type |-> "date"]]

newsFilters ==
    [provider   |-> [type |-> "string", default |-> "newsapi"],
     sourceName |-> [type |-> "string"],
     author     |-> [type |-> "string"],
     fromDate   |-> [type |-> "date"],
     toDate     |-> [type |-> "date"],
     query      |-> [type |-> "string"]]

\* The type conversion of processFilters.
ConvertFilter(value, type) ==
    CASE type = "number"  -> Number(value)
      [] type = "boolean" -> [type |-> "boolean", bool |-> value = "true"]
      [] type = "date"    -> Date(value)
      [] OTHER            -> Str(value)

\* processFilters: the keys of the schema that the query sets, converted,
\* without those whose value is not allowed, and the schema's defaults.
processFilters(query, schema) ==
    LET kept == {k \in DOMAIN schema :
                    IF k \in DOMAIN query
                    THEN \/ "allowed" \notin DOMAIN schema[k]
                         \/ \E a \in schema[k].allowed :
                                ConvertFilter(query[k], schema[k].type) = Str(a)
                    ELSE "default" \in DOMAIN schema[k]}
    IN  [k \in kept |->
            IF k \in DOMAIN query THEN ConvertFilter(query[k], schema[k].type)
            ELSE Str(schema[k].default)]

\* { ...criterion, [Op.gte]: filters[from], [Op.lte]: filters[to] } for the
\* bounds that are given.
RangeCriterion(filters, from, to) ==
    (IF from \in DOMAIN filters THEN "gte" :> filters[from] ELSE <<>>)
    @@ (IF to \in DOMAIN filters THEN "lte" :> filters[to] ELSE <<>>)

\* The filters with the bounds of a range replaced by the range criterion.
WithRange(filters, field, from, to) ==
    LET range == RangeCriterion(filters, from, to)
        keys  == (DOMAIN filters \ {from, to})
                 \cup (IF DOMAIN range # {} THEN {field} ELSE {})
    IN  [k \in keys |-> IF k = field THEN Obj(range) ELSE filters[k]]

\* processWeatherFilters: minTemperature / maxTemperature become a criterion
\* on temperature, fromDate / toDate one on timestamp.
processWeatherFilters(filters) ==
    WithRange(WithRange(filters, "temperature", "minTemperature", "maxTemperature"),
              "timestamp", "fromDate", "toDate")

\* processNewsFilters: fromDate / toDate become a criterion on publishedAt,
\* query becomes an OR of three patterns under the key Op.or.
processNewsFilters(filters) ==
    LET dated == WithRange(filters, "publishedAt", "fromDate", "toDate")
    IN  IF "query" \in DOMAIN dated /\ dated["query"] # Str("")
        THEN [k \in (DOMAIN dated \ {"query"}) \cup {"Op.or"} |->
                IF k = "Op.or"
                THEN Arr(<<"title", "description", "content">>)
                ELSE dated[k]]
        ELSE dated

LOOKUP_OPERATORS ==
    {"exact", "iexact", "contains", "icontains", "startswith", "istartswith",
     "endswith", "iendswith", "gt", "gte", "lt", "lte", "year", "month", "day",
     "isnull", "in", "between"}

\* param.split('__') over the keys of the model.
split(param) ==
    CASE param = "temperature__gte"     -> <<"temperature", "gte">>
      [] param = "temperature__lte"     -> <<"temperature", "lte">>
      [] param = "temperature__between" -> <<"temperature", "between">>
      [] param = "provider__in"         -> <<"provider", "in">>
      [] param = "city__icontains"      -> <<"city", "icontains">>
      [] param = "city__name"           -> <<"city", "name">>
      [] param = "source__name__exact"  -> <<"source", "name", "exact">>
      [] param = "createdAt__year"      -> <<"createdAt", "year">>
      [] OTHER                          -> <<param>>

\* parts.join('__') over the parts of the keys of the model.
join(parts) ==
    CASE parts = <<>>                 -> ""
      [] Len(parts) = 1               -> parts[1]
      [] parts = <<"source", "name">> -> "source__name"
      [] parts = <<"city", "name">>   -> "city__name"
      [] OTHER                        -> "?"

parseFieldLookupNoSplit(param) ==
    [field |-> param, lookupType |-> "icontains", relation |-> Null]

parseFieldLookup(param) ==
    LET parts == split(param)
        n     == Len(parts)
    IN  IF n = 1
        THEN [field |-> parts[1], lookupType |-> "icontains", relation |-> Null]
        ELSE IF parts[n] \in LOOKUP_OPERATORS
        THEN [field |-> join(SubSeq(parts, 1, n - 1)), lookupType |-> parts[n],
              relation |-> IF n > 2 THEN join(SubSeq(parts, 1, n - 2)) ELSE Null]
        ELSE [field |-> param, lookupType |-> "icontains",
              relation |-> join(SubSeq(parts, 1, n - 1))]

\* A template string `<pre>${value}<post>`.
Pattern(pre, value, post) == [type |-> "string", parts |-> <<pre, TemplateString(value), post>>]

\* Truthiness of a value.
JsTruthy(v) ==
    CASE v.type \in {"undefined", "null"} -> FALSE
      [] v.type = "string" -> v.str # ""
      [] OTHER -> TRUE

\* The criterion buildWhereClause makes of a lookup and its value: an entry
\* of LOOKUP_OPERATORS is an operator of the ORM, used as the key of the
\* value as it is, or a function of the value.
LookupCriterion(lookupType, value) ==
    CASE lookupType = "exact"       -> Obj("eq" :> value)
      [] lookupType \in {"gt", "gte", "lt", "lte", "in", "between"}
                                    -> Obj(lookupType :> value)
      [] lookupType = "iexact"      -> Obj("iLike" :> Pattern("^", value, "$"))
      [] lookupType = "contains"    -> Obj("like" :> Pattern("%", value, "%"))
      [] lookupType = "icontains"   -> Obj("iLike" :> Pattern("%", value, "%"))
      [] lookupType = "startswith"  -> Obj("like" :> Pattern("", value, "%"))
      [] lookupType = "istartswith" -> Obj("iLike" :> Pattern("", value, "%"))
      [] lookupType = "endswith"    -> Obj("like" :> Pattern("%", value, ""))
      [] lookupType = "iendswith"   -> Obj("iLike" :> Pattern("%", value, ""))
      [] lookupType = "isnull"      ->
            IF JsTruthy(value) THEN Obj("is" :> NullValue) ELSE Obj("not" :> NullValue)

\* buildWhereClause: one criterion per parameter that is not limit, offset
\* or sort and names no relation.  The year, month and day lookups call
\* Sequelize, which the module does not import: a ReferenceError.  No
\* other statement of the function throws.
buildWhereClause(queryParams) ==
    LET params == {k \in DOMAIN queryParams : k \notin {"limit", "offset", "sort"}}
        used   == {k \in params : parseFieldLookup(k).relation = Null}
        fields == {parseFieldLookup(k).field : k \in used}
    IN  IF \E k \in used : parseFieldLookup(k).lookupType \in {"year", "month", "day"}
        THEN [error |-> "ReferenceError", where |-> <<>>]
        ELSE [error |-> "",
              where |-> [f \in fields |->
                            LET k == CHOOSE k \in used : parseFieldLookup(k).field = f
                            IN  LookupCriterion(parseFieldLookup(k).lookupType,
                                                queryParams[k])]]

\* The criteria the weather repository is called with for a query of GET
\* /api/aggregated-data: processFilters, processWeatherFilters, then
\* buildQueryOptions(filters, Weather).where in getPaginatedWeather.
WeatherRequestCriteria(query) ==
    buildWhereClause(processWeatherFilters(processFilters(query, weatherFilters))).where

\* The criteria the news repository is called with: processFilters, then
\* processNewsFilters; getPaginatedNews passes them on as they are.
NewsRequestCriteria(query) ==
    processNewsFilters(processFilters(query, newsFilters))

\* A query that may set key k to one of the values.
Optional(k, values) == {<<>>} \cup {k :> v : v \in values}

FilterQueries ==
    { a @@ b @@ c @@ d @@ e @@ f :
        a \in Optional("minTemperature", {"20", "celsius"}),
        b \in Optional("maxTemperature", {"30"}),
        c \in Optional("fromDate", {"t1"}),
        d \in Optional("toDate", {"t2"}),
        e \in Optional("city", {"Hanoi"}),
        f \in Optional("provider", {"accuweather", "metoffice"}) }

CallWeatherFilters(query) ==
    /\ app' = [fn |-> "weatherFilters", arg |-> query, out |-> WeatherRequestCriteria(query)]
    /\ LibraryOnly

CallNewsFilters(query) ==
    /\ app' = [fn |-> "newsFilters", arg |-> query, out |-> NewsRequestCriteria(query)]
    /\ LibraryOnly

\* The keys and the values buildWhereClause and parseFieldLookup are called with.
LookupKeys ==
    {"city", "temperature__gte", "temperature__lte", "temperature__between",
     "provider__in", "city__icontains", "city__name", "source__name__exact",
     "createdAt__year", "limit"}

LookupValues ==
    {Undefined, Str(""), Str("20"), Str("10,20"), Arr(<<Str("10"), Str("20")>>)}

CallBuildWhereClause(key, value) ==
    /\ app' = [fn |-> "buildWhereClause", arg |-> [key |-> key, value |-> value],
               out |-> buildWhereClause(key :> value)]
    /\ LibraryOnly

CallParseFieldLookup(param) ==
    /\ app' = [fn |-> "parseFieldLookup", arg |-> param, out |-> parseFieldLookup(param)]
    /\ LibraryOnly

(***************************************************************************)
(* Specification of the library: any sequence of calls of the library      *)
(* functions, each on an argument of its input set.  No table is touched.  *)
(***************************************************************************)
(***************************************************************************)
(* findAll and count of the two weather repositories, on the same rows.    *)
(* A call resolves to rows, to a number or to the driver's result object,  *)
(* or it rejects.                                                          *)
(***************************************************************************)
Rows(rows) == [kind |-> "rows", rows |-> rows, n |-> 0]
Count(n) == [kind |-> "number", rows |-> <<>>, n |-> n]
ResultObject(rows) == [kind |-> "object", rows |-> rows, n |-> 0]
Rejects(msg) == [kind |-> msg, rows |-> <<>>, n |-> 0]

\* NeonWeatherRepository.findAll: SELECT * FROM weather WHERE ... ORDER BY ...
\* LIMIT options.limit; options.offset is not read.  It returns whatever the
\* driver resolves to.
NeonWeatherFindAll(tbl, criteria, options, shape) ==
    LET rows == Slice(SortDesc(WeatherWhere(tbl, criteria), options.order),
                      0, options.limit)
    IN  IF shape = "array" THEN Rows(rows) ELSE ResultObject(rows)

\* NeonWeatherRepository.count: the WHERE clause is built with placeholders
\* but the values are not handed to the statement, so the statement fails
\* unless the criteria are empty; parseInt(result[0].count).
NeonWeatherCount(tbl, criteria, shape) ==
    IF DOMAIN criteria # {} THEN Rejects("[NeonWeatherRepository.count] database error")
    ELSE IF shape = "array" THEN Count(Cardinality(tbl))
    ELSE Rejects("[NeonWeatherRepository.count] Cannot read properties of undefined")

\* SequelizeWeatherRepository.count: the class defines none, the interface's
\* count throws.
SequelizeWeatherCount(tbl, criteria) ==
    IF SequelizeWeatherCountImplemented
    THEN Count(Cardinality(WeatherWhere(tbl, criteria)))
    ELSE Rejects("Method count() must be implemented")

\* The tables, criteria and options of the calls.
StoredWeatherTables == AggWeatherTables \cup {{}}
FindCriteria == { <<>>, [city |-> "Hanoi"] }
FindOptions ==
    { [limit |-> l, offset |-> o, order |-> "timestamp"] : l \in 1..2, o \in 0..1 }

\* findAll(criteria, options) on both weather repositories over the rows tbl.
CallWeatherFindAll(tbl, criteria, options, shape) ==
    /\ app' = [fn |-> "weather.findAll",
               arg |-> [table |-> tbl, criteria |-> criteria, options |-> options,
                        shape |-> shape],
               out |-> [neon |-> NeonWeatherFindAll(tbl, criteria, options, shape),
                        sequelize |-> Rows(SequelizeWeatherFindAll(tbl, criteria, options))]]
    /\ LibraryOnly

\* count(criteria) on both weather repositories over the rows tbl.
CallWeatherCount(tbl, criteria, shape) ==
    /\ app' = [fn |-> "weather.count",
               arg |-> [table |-> tbl, criteria |-> criteria, shape |-> shape],
               out |-> [neon |-> NeonWeatherCount(tbl, criteria, shape),
                        sequelize |-> SequelizeWeatherCount(tbl, criteria)]]
    /\ LibraryOnly

(***************************************************************************)
(* The transformers (services/base/transformer.js and the providers').     *)
(***************************************************************************)
\* String.prototype.trim over the city names of the model.
trim(city) ==
    CASE city = " hcm "    -> "hcm"
      [] city = " SAIGON " -> "SAIGON"
      [] city = " saigon " -> "saigon"
      [] OTHER             -> city

\* The title-casing of _normalizeCityName: the lower-cased name split at
\* ' ', every word with its first letter in upper case, joined with ' '.
TitleCase(lower) ==
    CASE lower = "hue"              -> "Hue"
      [] lower = "da nang"          -> "Da Nang"
      [] lower = "hcm"              -> "Hcm"
      [] lower = " hcm "            -> " Hcm "
      [] lower = "saigon"           -> "Saigon"
      [] lower = " saigon "         -> " Saigon "
      [] lower = "hanoi"            -> "Hanoi"
      [] lower = "ho chi minh"      -> "Ho Chi Minh"
      [] lower = "ho chi minh city" -> "Ho Chi Minh City"
      [] OTHER                      -> lower

specialCases ==
    [k \in {"ho chi minh", "ho chi minh city", "hcm", "hanoi", "saigon"} |->
        CASE k = "ho chi minh"      -> "Ho Chi Minh"
          [] k = "ho chi minh city" -> "Ho Chi Minh "
          [] k = "hcm"              -> "Ho Chi Minh"
          [] k = "hanoi"            -> "Hanoi"
          [] OTHER                  -> "Ho Chi Minh City"]

\* BaseWeatherTransformer._normalizeCityName.
normalizeCityName(city) ==
    IF city = "" THEN ""
    ELSE LET lowerCity == toLowerCase(trim(city))
         IN  IF lowerCity \in DOMAIN specialCases THEN specialCases[lowerCity]
             ELSE TitleCase(toLowerCase(city))

CityNames ==
    {"hcm", "HCM", " hcm ", "saigon", "Saigon", " SAIGON ", "ho chi minh", "Ho Chi Minh",
     "ho chi minh city", "hanoi", "da nang", "Da Nang", "HUE", ""}

CallNormalizeCityName(city) ==
    /\ app' = [fn |-> "normalizeCityName", arg |-> city, out |-> normalizeCityName(city)]
    /\ LibraryOnly

\* A raw answer of a weather provider, by what the transformers look at:
\* null/undefined or an object; for OpenWeatherMap the weather array
\* (missing, empty or with an entry) and whether main, wind and name are
\* there; for AccuWeather whether location and conditions are there.
CompleteAnswer ==
    [is |-> "object", weather |-> "one", main |-> TRUE, wind |-> TRUE, name |-> "hanoi",
     location |-> TRUE, conditions |-> TRUE]

RawWeather ==
    { CompleteAnswer,
      [CompleteAnswer EXCEPT !.is = "null"],
      [CompleteAnswer EXCEPT !.is = "undefined"],
      [CompleteAnswer EXCEPT !.weather = "missing"],
      [CompleteAnswer EXCEPT !.weather = "empty"],
      [CompleteAnswer EXCEPT !.main = FALSE],
      [CompleteAnswer EXCEPT !.wind = FALSE],
      [CompleteAnswer EXCEPT !.name = Undef],
      [CompleteAnswer EXCEPT !.location = FALSE],
      [CompleteAnswer EXCEPT !.conditions = FALSE] }

Normalized(city) == [kind |-> "record", city |-> city, error |-> ""]
Throws(kind, msg) == [kind |-> kind, city |-> "", error |-> msg]

\* OpenWeatherMapTransformer.validate of a current-weather answer (no list):
\* the value of data && (data.weather || data.list) && data.main && data.wind,
\* after data.list has been read.
OpenWeatherMapValidate(data) ==
    IF data.is # "object" THEN "TypeError"
    ELSE IF data.weather # "missing" /\ data.main /\ data.wind THEN "truthy"
    ELSE "falsy"

\* OpenWeatherMapTransformer._transformCurrent: reads data.main.temp,
\* data.wind.speed and data.weather[0].main.
OpenWeatherMapTransform(data) ==
    IF data.weather = "empty"
    THEN Throws("TypeError", "Cannot read properties of undefined (reading 'main')")
    ELSE Normalized(normalizeCityName(IF data.name = Undef THEN "" ELSE data.name))

\* AccuWeatherTransformer.validate: data && data.location && (data.conditions
\* || data.forecast), for an answer without a forecast.
AccuWeatherValidate(data) ==
    IF data.is = "object" /\ data.location /\ data.conditions THEN "truthy" ELSE "falsy"

\* AccuWeatherTransformer._transformCurrent: every nested read is optional.
AccuWeatherTransform(data) ==
    Normalized(normalizeCityName(IF data.name = Undef THEN "" ELSE data.name))

Transformers == {"openweathermap", "accuweather"}

\* BaseTransformer.normalize: validate, then transform.
normalize(transformer, rawData) ==
    LET v == IF transformer = "openweathermap" THEN OpenWeatherMapValidate(rawData)
             ELSE AccuWeatherValidate(rawData)
    IN  CASE v = "TypeError" ->
                Throws("TypeError", "Cannot read properties of null (reading 'list')")
          [] v = "falsy" ->
                Throws("Error", "Invalid data structure received from external source")
          [] OTHER -> IF transformer = "openweathermap" THEN OpenWeatherMapTransform(rawData)
                      ELSE AccuWeatherTransform(rawData)

CallNormalize(transformer, rawData) ==
    /\ app' = [fn |-> "normalize", arg |-> [transformer |-> transformer, rawData |-> rawData],
               out |-> normalize(transformer, rawData)]
    /\ LibraryOnly

InitLib ==
    /\ news = {}
    /\ weather = {}
    /\ newsSeq = 0
    /\ weatherSeq = 0
    /\ svc = NewService
    /\ calls = [k \in CallIds |-> IdleCall]
    /\ job = IdleJob
    /\ cityTask = <<>>
    /\ artTask = <<>>
    /\ last = IdleLast
    /\ neonResult = "array"
    /\ repo = "none"
    /\ app = NoApp

NextLib ==
    \/ \E t \in RepositoryTypes, c \in Configs : CallCreateNewsRepository(t, c)
    \/ \E t \in RepositoryTypes, c \in Configs : CallCreateWeatherRepository(t, c)
    \/ \E d \in WeatherRecords : CallValidateWeatherData(d)
    \/ \E pg \in PageArgs, l \in LimitArgs, t \in TotalArgs :
          CallGetPaginationMetadata(pg, l, t)
    \/ \E q \in PageQueries : CallGetPaginationParams(q)
    \/ \E q \in FilterQueries : CallWeatherFilters(q)
    \/ \E q \in FilterQueries : CallNewsFilters(q)
    \/ \E k \in LookupKeys, v \in LookupValues : CallBuildWhereClause(k, v)
    \/ \E k \in LookupKeys : CallParseFieldLookup(k)
    \/ \E t \in StoredWeatherTables, c \in FindCriteria, o \in FindOptions, sh \in NeonResults :
          CallWeatherFindAll(t, c, o, sh)
    \/ \E t \in StoredWeatherTables, c \in FindCriteria, sh \in NeonResults :
          CallWeatherCount(t, c, sh)
    \/ \E c \in CityNames : CallNormalizeCityName(c)
    \/ \E t \in Transformers, d \in RawWeather : CallNormalize(t, d)

SpecLib == InitLib /\ [][NextLib]_vars

(***************************************************************************)
(* Claims about the library functions (checked under SpecLib).             *)
(***************************************************************************)
FactoryCall == app.fn \in {"createNewsRepository", "createWeatherRepository"}

\* C11: a repository factory returns an instance only if the instance's own
\* class implements every required interface method (an adapter that only
\* inherits a throwing stub is rejected), and an unknown type is rejected.
C11_FactoryRejectsUnimplemented ==
    FactoryCall =>
        /\ (app.out.instance # NoInstance) =>
               (RequiredMethods(app.out.instance) \subseteq OwnMethods(app.out.instance))
        /\ (toLowerCase(app.arg.type) \notin {"sequelize", "neon"}) =>
               (app.out.instance = NoInstance)

ValidateCall == app.fn = "validateWeatherData"

\* A record of 17 fields that all have a value, with a known provider, a
\* timestamp that is a date at most 24 hours ahead, and numbers within the
\* ranges the validation documents.
C12_ValidValues(d) ==
    /\ \A f \in WeatherFields : ~IsMissing(d[f])
    /\ d["provider"] \in {Str("openweathermap"), Str("accuweather")}
    /\ d["timestamp"] \in {Str("t1"), Str("t2"), Str("t3"), Str("t4")}
    /\ \A f \in WeatherNumerics : d[f].type = "number"
    /\ d["temperature"].num \in -100..70 /\ d["feelsLike"].num \in -100..70
    /\ d["humidity"].num \in 0..100 /\ d["pressure"].num \in 800..1200
    /\ d["windSpeed"].num \in 0..150 /\ d["windDirection"].num \in 0..360

\* C12: weather validate accepts every record that has all 17 required
\* fields with valid values, and a record in which a required field is
\* undefined, null or the empty string is rejected with the message
\* 'Missing required fields' that names that field.
C12_RequiredFieldsNamed ==
    ValidateCall =>
        /\ C12_ValidValues(app.arg) => (app.out = Valid)
        /\ \A f \in WeatherFields :
              IsMissing(app.arg[f]) =>
                  /\ app.out.error = "Missing required fields"
                  /\ \E i \in 1..Len(app.out.fields) : app.out.fields[i] = f

C12_Witness ==
    /\ ValidateCall
    /\ app.arg["windSpeed"] = NullValue
    /\ app.out = Invalid("Missing required fields", <<"windSpeed">>)

\* The ranges and the bounds of the documentation of the validation.
C13_Ranges ==
    [temperature |-> -100..70, humidity |-> 0..100, pressure |-> 800..1200,
     windSpeed |-> 0..150, windDirection |-> 0..360]

\* C13: weather validate rejects every record whose temperature, humidity,
\* pressure, windSpeed or windDirection is a number outside its range, and
\* accepts the records whose values are exactly on a bound of the range.
C13_RangesInclusive ==
    ValidateCall =>
        /\ \A f \in DOMAIN C13_Ranges :
              (app.arg[f].type = "number" /\ app.arg[f].num \notin C13_Ranges[f]) =>
                  (app.out # Valid)
        /\ (\E f \in DOMAIN C13_Ranges, n \in {-100, 70, 0, 100, 800, 1200, 150, 360} :
                /\ n \in C13_Ranges[f]
                /\ app.arg = [ValidWeather EXCEPT ![f] = Num(n)]) =>
               (app.out = Valid)

C13_Witness ==
    /\ ValidateCall
    /\ app.arg = [ValidWeather EXCEPT !["pressure"] = Num(1200)]
    /\ app.out = Valid

\* C16: for page >= 1, limit >= 1 and totalItems >= 0, getPaginationMetadata
\* returns totalPages = ceil(totalItems / limit) (the least number of pages
\* of limit items that hold totalItems), currentPage = page, itemsPerPage =
\* limit, hasNextPage exactly when page < totalPages and hasPreviousPage
\* exactly when page > 1; 95 items in pages of 20 are 5 pages.
C16_PaginationMetadata ==
    (app.fn = "getPaginationMetadata") =>
        LET a == app.arg
            o == app.out
        IN  /\ o.totalPages * a.limit >= a.totalItems
            /\ (o.totalPages - 1) * a.limit < a.totalItems
            /\ o.totalItems = a.totalItems
            /\ o.currentPage = a.page
            /\ o.itemsPerPage = a.limit
            /\ o.hasNextPage = (a.page < o.totalPages)
            /\ o.hasPreviousPage = (a.page > 1)
            /\ (a.totalItems = 95 /\ a.limit = 20) => (o.totalPages = 5)

C16_Witness ==
    /\ app.fn = "getPaginationMetadata"
    /\ app.arg = [page |-> 5, limit |-> 20, totalItems |-> 95]
    /\ app.out.totalPages = 5
    /\ ~app.out.hasNextPage
    /\ app.out.hasPreviousPage

\* C17: getPaginationParams returns a limit that does not exceed the
\* configured maximum, and an offset that is computed from page and limit
\* unless the query gives an offset, in which case the given offset is the
\* one returned, also when the query gives a page too.
C17_ExplicitOffsetWins ==
    (app.fn = "getPaginationParams") =>
        LET q == app.arg
            o == app.out
        IN  /\ o.limit <= PageMaxLimit
            /\ IF ParseInt(q.offset).nan
               THEN o.offset = (o.page - 1) * o.limit
               ELSE o.offset = ParseInt(q.offset).n

\* The range criterion the bounds of a query stand for.
C18_Range(q, from, to, Value(_)) ==
    Obj((IF from \in DOMAIN q THEN "gte" :> Value(q[from]) ELSE <<>>)
        @@ (IF to \in DOMAIN q THEN "lte" :> Value(q[to]) ELSE <<>>))

C18_HasRange(q, from, to) == from \in DOMAIN q \/ to \in DOMAIN q

C18_WeatherRanges ==
    (app.fn = "weatherFilters") =>
        /\ C18_HasRange(app.arg, "minTemperature", "maxTemperature") =>
              /\ "temperature" \in DOMAIN app.out
              /\ app.out["temperature"] =
                     C18_Range(app.arg, "minTemperature", "maxTemperature", Number)
        /\ C18_HasRange(app.arg, "fromDate", "toDate") =>
              /\ "timestamp" \in DOMAIN app.out
              /\ app.out["timestamp"] = C18_Range(app.arg, "fromDate", "toDate", Date)

C18_NewsRanges ==
    (app.fn = "newsFilters") =>
        (C18_HasRange(app.arg, "fromDate", "toDate") =>
              /\ "publishedAt" \in DOMAIN app.out
              /\ app.out["publishedAt"] = C18_Range(app.arg, "fromDate", "toDate", Date))

\* C18: minTemperature=a and maxTemperature=b of a request reach the weather
\* repository as the criterion a <= temperature <= b, and fromDate / toDate
\* as a range criterion on timestamp (on publishedAt for the news
\* repository): the query-building step keeps the range operators.
C18_RangesReachRepository ==
    C18_WeatherRanges /\ C18_NewsRanges

\* C19: buildWhereClause fails with a BadRequest error, and produces no
\* criterion, for a between or in lookup whose value is omitted or is not an
\* array.
C19_ArrayLookupsRejectNonArrays ==
    (/\ app.fn = "buildWhereClause"
     /\ parseFieldLookup(app.arg.key).lookupType \in {"between", "in"}
     /\ app.arg.value.type # "array") =>
        (app.out.error = "BadRequest")

\* C20: parseFieldLookup splits 'field__operator' with a known operator into
\* that field and operator ('temperature__gte': field 'temperature',
\* operator 'gte'), and gives a key without a suffix ('city') that field
\* with the case-insensitive contains lookup.
C20_FieldLookupParsed ==
    (app.fn = "parseFieldLookup") =>
        /\ (app.arg = "temperature__gte") =>
               (app.out.field = "temperature" /\ app.out.lookupType = "gte")
        /\ (app.arg = "temperature__between") =>
               (app.out.field = "temperature" /\ app.out.lookupType = "between")
        /\ (app.arg = "provider__in") =>
               (app.out.field = "provider" /\ app.out.lookupType = "in")
        /\ (app.arg = "city__icontains") =>
               (app.out.field = "city" /\ app.out.lookupType = "icontains")
        /\ (app.arg = "city") =>
               (app.out.field = "city" /\ app.out.lookupType = "icontains")
        /\ (app.arg = "limit") =>
               (app.out.field = "limit" /\ app.out.lookupType = "icontains")

C20_Witness ==
    /\ app.fn = "parseFieldLookup"
    /\ app.arg = "temperature__gte"
    /\ app.out = [field |-> "temperature", lookupType |-> "gte", relation |-> Null]

\* C25: on the same stored rows, with the same equality criteria and the
\* same options {limit, offset, order}, the Neon and the Sequelize weather
\* repositories return the same sequence of rows from findAll and the same
\* number from count.
C25_WeatherBackendsAgree ==
    /\ app.fn = "weather.findAll" =>
          /\ app.out.neon.kind = "rows" /\ app.out.sequelize.kind = "rows"
          /\ app.out.neon.rows = app.out.sequelize.rows
    /\ app.fn = "weather.count" =>
          /\ app.out.neon.kind = "number" /\ app.out.sequelize.kind = "number"
          /\ app.out.neon.n = app.out.sequelize.n

\* C26: for every raw answer of a provider (null, an answer with missing
\* nested fields, a current-weather answer with an empty weather array)
\* normalize returns a normalized record or throws the validation error
\* 'Invalid data structure received from external source'; no other error
\* leaves it.
C26_NormalizeFailsOnlyWithValidation ==
    app.fn = "normalize" =>
        \/ app.out.kind = "record"
        \/ app.out.error = "Invalid data structure received from external source"

\* C28: _normalizeCityName maps 'hcm' and 'saigon', in any letter case and
\* with surrounding whitespace, to 'Ho Chi Minh', the value it gives for
\* 'ho chi minh'; every other name is title-cased.
C28_AliasesCanonical ==
    app.fn = "normalizeCityName" =>
        LET name == toLowerCase(trim(app.arg)) IN
        /\ name \in {"hcm", "saigon"} =>
              /\ app.out = "Ho Chi Minh"
              /\ app.out = normalizeCityName("ho chi minh")
        /\ name \notin {"hcm", "saigon", "ho chi minh"} =>
              app.out = TitleCase(toLowerCase(app.arg))

\* C30: for every query, with page, limit or offset zero, negative, not a
\* number or absent, getPaginationParams returns a page of at least 1, a
\* limit between 1 and the configured maximum and an offset of at least 0.
C30_ParamsInRange ==
    (app.fn = "getPaginationParams") =>
        /\ app.out.page >= 1
        /\ app.out.limit >= 1 /\ app.out.limit <= PageMaxLimit
        /\ app.out.offset >= 0

====
